---- MODULE Spec2Model ----
(***************************************************************************)
(* Verification model of the Knowledge-Assistant backend:                  *)
(*   - VectorStoreService (services/vector_store.py) with its on-disk      *)
(*     snapshot, and RetrievalService.retrieve_documents on top of it;     *)
(*   - QueryPlannerAgent._parse_decomposition and create_execution_plan;   *)
(*   - SelfConsistencyAgent and LLMOrchestrator multi-sample generation;   *)
(*   - QueryPlanner.plan_query / execute_hop driven by LLMOrchestrator;    *)
(*   - VerificationService.verify_claims and RerankerService.rerank;       *)
(*   - LangChainRAGService.process_query;                                  *)
(*   - concurrent IngestionService.process_document calls;                 *)
(*   - concurrent multi-hop queries sharing one MultiHopReasoningAgent.    *)
(* Each component has its own variables and its own specification.         *)
(* Scores are fixed-point hundredths (0.7 is 70); embeddings are           *)
(* one-dimensional, in tenths, so a squared L2 distance is in hundredths.  *)
(***************************************************************************)
EXTENDS Integers, Sequences, FiniteSets, TLC

VARIABLES
    index,          \* VectorStoreService.index: the vectors, position p holds FAISS id p-1
    metadata,       \* VectorStoreService.metadata: insertion-ordered dict, as a sequence
    diskIndexFile,  \* faiss_index.bin
    diskMetaFile,   \* metadata.pkl
    lastCall,       \* the last call made on the store and what it returned
    hidden,         \* history: (doc_id, tenant_id) deleted in this run and not re-added
    saveFailures,   \* history: how many add_chunk calls raised
    paPc,           \* QueryPlannerAgent: "off", "asked", "awaiting" (its LLM call),
                    \* "decomposed" or "planned"
    paQuestion,     \* the question, as its words
    paLlm,          \* what the LLM call did: it raised, or the response's lines
    paComplexity,   \* what analyze_query_complexity returned
    paSubQueries,   \* the list decompose_query returned
    paPlan,         \* what create_execution_plan returned
    scPc,           \* multi-sample generation: "off", "sampling" or "done"
    scImpl,         \* which implementation runs: "agent" or "orchestrator"
    scSamples,      \* per sample: Pending, or how its LLM call ended
    scAnswers,      \* the orchestrator's answers list, in generation order
    scResult,       \* what the operation returned
    hop_cache,      \* QueryPlanner.hop_cache: insertion-ordered dict, as a sequence
    orPc,           \* LLMOrchestrator.process_query: "off", "idle", "single", "multi"
                    \* or "generating"
    orQuery,        \* the arguments of the call being processed, with its ordinal
    orPlan,         \* execution_plan of the call
    orHopState,     \* per hop of the plan: "waiting", "running" or "done"
    orHopResults,   \* hop_results of the call
    orHopOrigin,    \* history: per hop result, the ordinal of the call that computed it
    orContext,      \* context of the call (what the hops read of it)
    orResult,       \* what the call returned (nothing while it runs)
    orServed,       \* how many calls have returned
    orLlmCalls,     \* history: the LLM calls made for the call, so far
    orSources,      \* the sources the answer generation of the call works on
    orSamples,      \* self_consistency_samples of the call, once it is read
    orAnswers,      \* per LLM call of the generation made so far: what the LLM did
    vfPc,           \* VerificationService: "off", "called" or "returned"
    vfAnswer,       \* the answer, as its sentences, each as its words
    vfSources,      \* the sources handed to verify_claims
    vfResult,       \* what verify_claims returned
    rrPc,           \* RerankerService: "off", "called" or "returned"
    rrCandidates,   \* the candidates handed to rerank
    rrTopN,         \* its top_n
    rrTfidf,        \* history: what the TF-IDF computation of the call did
    rrResult,       \* what rerank returned
    rsPc,           \* LangChainRAGService.process_query: "off", "received", "planning",
                    \* "answering", "reasoning" or "returned"
    rsQuestion,     \* the question, as its words
    rsOptions,      \* the options of the call
    rsPlan,         \* query_plan (nothing before the planning)
    rsResult,       \* what the call returned (nothing while it runs)
    ingPc,          \* IngestionService.process_document, per call: "off", "called",
                    \* "embedding", "storing", "completed" or "failed"
    ingChunks,      \* per call: how many chunks the document was cut into
    ingNext,        \* per call: the chunk the loop is at
    ingEmbedding,   \* per call: the embedding generated for that chunk
    ingGiven,       \* history: per chunk_id handed to add_chunk, the embedding handed with it
    mhPc,           \* concurrent multi-hop queries on one LangChainRAGService, per
                    \* query: "off", "called", "planning", "reasoning" or "returned"
    mhRetriever,    \* multi_hop_agent.retriever, the attribute the queries share
    mhSearches      \* history: per query, the retrievers its document searches used

vsVars == <<index, metadata, diskIndexFile, diskMetaFile, lastCall, hidden, saveFailures>>
paVars == <<paPc, paQuestion, paLlm, paComplexity, paSubQueries, paPlan>>
scVars == <<scPc, scImpl, scSamples, scAnswers, scResult>>

orVars == <<hop_cache, orPc, orQuery, orPlan, orHopState, orHopResults, orHopOrigin,
            orContext, orResult, orServed, orLlmCalls, orSources, orSamples, orAnswers>>

vfVars == <<vfPc, vfAnswer, vfSources, vfResult>>

rrVars == <<rrPc, rrCandidates, rrTopN, rrTfidf, rrResult>>

rsVars == <<rsPc, rsQuestion, rsOptions, rsPlan, rsResult>>

ingVars == <<ingPc, ingChunks, ingNext, ingEmbedding, ingGiven>>

mhVars == <<mhPc, mhRetriever, mhSearches>>

vars == <<vsVars, paVars, scVars, orVars, vfVars, rrVars, rsVars, ingVars, mhVars>>

\* what the actions of one component leave alone
othersVS == <<paVars, scVars, orVars, vfVars, rrVars, rsVars, ingVars, mhVars>>
othersPA == <<vsVars, scVars, orVars, vfVars, rrVars, rsVars, ingVars, mhVars>>
othersSC == <<vsVars, paVars, orVars, vfVars, rrVars, rsVars, ingVars, mhVars>>
othersOR == <<vsVars, paVars, scVars, vfVars, rrVars, rsVars, ingVars, mhVars>>
othersVF == <<vsVars, paVars, scVars, orVars, rrVars, rsVars, ingVars, mhVars>>
othersRR == <<vsVars, paVars, scVars, orVars, vfVars, rsVars, ingVars, mhVars>>
othersRS == <<vsVars, paVars, scVars, orVars, vfVars, rrVars, ingVars, mhPc, mhSearches>>
\* the ingestion calls act on the vector store
othersING == <<paVars, scVars, orVars, vfVars, rrVars, rsVars, mhVars>>
othersMH == <<vsVars, paVars, scVars, orVars, vfVars, rrVars, rsVars, ingVars>>

----------------------------------------------------------------------------
(* Bounds and program constants *)

MaxVectors == 2
TOP_K_RETRIEVAL == 50
TOP_N_RERANK == 5
MaxSaveFailures == 1
SIMILARITY_THRESHOLD == 70

ChunkIds == {"c1", "c2"}
DocIds == {"d1", "d2"}
Tenants == {"t1", "t2"}
\* each tenant stores its own texts, so a text tells whose chunk it came from
TextsOf(t) == IF t = "t1" THEN {"alpha of t1"} ELSE {"alpha of t2"}
Embeddings == {0, 10}
QueryTexts == {"near", "far"}
\* the callers' top_k and top_n: the configured defaults, or a single hit
Limits == {[top_k |-> TOP_K_RETRIEVAL, top_n |-> TOP_N_RERANK],
           [top_k |-> TOP_K_RETRIEVAL, top_n |-> 1],
           [top_k |-> 1, top_n |-> TOP_N_RERANK]}

Min(a, b) == IF a < b THEN a ELSE b
Max(a, b) == IF a > b THEN a ELSE b

\* seq[:n] and the elements of a list
FirstN(seq, n) == SubSeq(seq, 1, Min(n, Len(seq)))
Range(seq) == {seq[p] : p \in DOMAIN seq}

----------------------------------------------------------------------------
(* VectorStoreService *)

NoChunk == [chunk_id |-> "", doc_id |-> "", tenant_id |-> "", text |-> "", index_id |-> -1]

NoFile == [exists |-> FALSE, readable |-> FALSE, data |-> <<>>]

File(d) == [exists |-> TRUE, readable |-> TRUE, data |-> d]

Truncated == [exists |-> TRUE, readable |-> FALSE, data |-> <<>>]

\* self.metadata[chunk_id] = chunk_metadata: an existing key keeps its place
DictPut(meta, rec) ==
    IF \E i \in 1..Len(meta) : meta[i].chunk_id = rec.chunk_id
    THEN [i \in 1..Len(meta) |-> IF meta[i].chunk_id = rec.chunk_id THEN rec ELSE meta[i]]
    ELSE Append(meta, rec)

\* squared L2 distance, the score IndexHNSWFlat reports
Distance(q, v) == (q - v) * (q - v)

\* the orders in which the index may list its FAISS ids for a query: nearest
\* first; which of two vectors at the same distance comes first is up to the
\* graph of IndexHNSWFlat, so every order of them is possible
Rank(idx, q) ==
    {f \in [1..Len(idx) -> 0..(Len(idx) - 1)] :
        /\ \A a, b \in 1..Len(idx) : a # b => f[a] # f[b]
        /\ \A a, b \in 1..Len(idx) :
              a < b => Distance(q, idx[f[a] + 1]) <= Distance(q, idx[f[b] + 1])}

\* self.index.search(query_array, top_k): the lists of (score, id) pairs it may
\* return; the -1 padding is left out
IndexSearch(idx, q, k) ==
    {[p \in 1..Min(k, Len(idx)) |-> [score |-> Distance(q, idx[f[p] + 1]), idx |-> f[p]]] :
        f \in Rank(idx, q)}

\* for chunk_id, meta in self.metadata.items(): if meta["index_id"] == idx: ... break
FindByIndexId(meta, i) ==
    IF \E p \in 1..Len(meta) : meta[p].index_id = i
    THEN meta[CHOOSE p \in 1..Len(meta) :
                /\ meta[p].index_id = i
                /\ \A r \in 1..(p - 1) : meta[r].index_id # i]
    ELSE NoChunk

\* mutants of KeepHit: a search that forgets the tenant filter, or the threshold
KeepHitAnyTenant(meta, hit, tenant_id, threshold) ==
    LET m == FindByIndexId(meta, hit.idx)
    IN  /\ m # NoChunk
        /\ ~(hit.score < threshold)

KeepHitAnyScore(meta, hit, tenant_id, threshold) ==
    LET m == FindByIndexId(meta, hit.idx)
    IN  /\ m # NoChunk
        /\ m.tenant_id = tenant_id

\* the three "continue" tests of the search loop
KeepHit(meta, hit, tenant_id, threshold) ==
    LET m == FindByIndexId(meta, hit.idx)
    IN  /\ m # NoChunk
        /\ m.tenant_id = tenant_id
        /\ ~(hit.score < threshold)

RECURSIVE SearchLoop(_, _, _, _, _)
SearchLoop(meta, hits, p, tenant_id, threshold) ==
    IF p > Len(hits) THEN <<>>
    ELSE LET m == FindByIndexId(meta, hits[p].idx)
             rest == SearchLoop(meta, hits, p + 1, tenant_id, threshold)
         IN  IF KeepHit(meta, hits[p], tenant_id, threshold)
             THEN <<[chunk_id |-> m.chunk_id, doc_id |-> m.doc_id,
                     text |-> m.text, score |-> hits[p].score]>> \o rest
             ELSE rest

\* VectorStoreService.search: the lists it may return
SearchResults(idx, meta, q, tenant_id, top_k, threshold) ==
    {SearchLoop(meta, hits, 1, tenant_id, threshold) : hits \in IndexSearch(idx, q, top_k)}

\* VectorStoreService._load_index
LoadIndex(indexFile, metaFile) ==
    IF indexFile.exists /\ metaFile.exists /\ indexFile.readable /\ metaFile.readable
    THEN [index |-> indexFile.data, metadata |-> metaFile.data]
    ELSE [index |-> <<>>, metadata |-> <<>>]

\* a save completes, or raises at one of its four steps: faiss.write_index
\* cannot open the index file, or fails while it writes it; open(metadata_file,
\* 'wb') raises, or pickle.dump fails while it writes the metadata file
SaveOutcomes ==
    {"ok", "index_open_fails", "index_write_fails", "meta_open_fails", "meta_dump_fails"}

\* VectorStoreService._save_index: the index file is written first, then the
\* metadata file; faiss.write_index truncates the file it has opened
SavedIndexFile(outcome, idx) ==
    CASE outcome = "index_open_fails" -> diskIndexFile
      [] outcome = "index_write_fails" -> Truncated
      [] OTHER -> File(idx)

\* mutant of SavedMetaFile: add_chunk that returns without writing the metadata
SavedMetaFileSkipped(outcome, meta) == diskMetaFile

\* open(metadata_file, 'wb') truncates the file before pickle.dump writes it;
\* a save that raised before has not touched the file
SavedMetaFile(outcome, meta) ==
    CASE outcome = "ok" -> File(meta)
      [] outcome = "meta_dump_fails" -> Truncated
      [] OTHER -> diskMetaFile

Call(op, ok, tenant, results, chunk) ==
    [op |-> op, ok |-> ok, tenant |-> tenant, results |-> results, chunk |-> chunk]

\* mutant of IndexId: the id read before self.index.add has run
IndexIdBeforeAdd(idx) == Len(idx) - 2

\* "index_id": self.index.ntotal - 1, read after self.index.add
IndexId(idx) == Len(idx) - 1

\* VectorStoreService.add_chunk: what it does to the store and to the files
AddChunkToStore(chunk_id, doc_id, tenant_id, text, embedding, outcome) ==
    LET newIndex == Append(index, embedding)
        rec == [chunk_id |-> chunk_id, doc_id |-> doc_id, tenant_id |-> tenant_id,
                text |-> text, index_id |-> IndexId(newIndex)]
        newMeta == DictPut(metadata, rec)
    IN  /\ outcome # "ok" => saveFailures < MaxSaveFailures
        /\ index' = newIndex
        /\ metadata' = newMeta
        /\ diskIndexFile' = SavedIndexFile(outcome, newIndex)
        /\ diskMetaFile' = SavedMetaFile(outcome, newMeta)
        /\ lastCall' = Call("add", outcome = "ok", tenant_id, <<>>, rec)
        /\ hidden' = hidden \ {<<doc_id, tenant_id>>}
        /\ saveFailures' = IF outcome = "ok" THEN saveFailures ELSE saveFailures + 1

\* VectorStoreService.add_chunk
AddChunk(chunk_id, doc_id, tenant_id, text, embedding, outcome) ==
    /\ Len(index) < MaxVectors
    /\ AddChunkToStore(chunk_id, doc_id, tenant_id, text, embedding, outcome)
    /\ UNCHANGED othersVS

\* mutant of RemainingMetadata: a delete that stops at the document's first chunk
RemainingMetadataFirstOnly(meta, doc_id, tenant_id) ==
    LET hit(p) == meta[p].doc_id = doc_id /\ meta[p].tenant_id = tenant_id
    IN  IF \E p \in 1..Len(meta) : hit(p)
        THEN LET first == CHOOSE p \in 1..Len(meta) : hit(p) /\ \A r \in 1..(p - 1) : ~hit(r)
             IN  [p \in 1..(Len(meta) - 1) |-> IF p < first THEN meta[p] ELSE meta[p + 1]]
        ELSE meta

\* chunks_to_delete, then del self.metadata[chunk_id] for each
RemainingMetadata(meta, doc_id, tenant_id) ==
    SelectSeq(meta, LAMBDA m : ~(m.doc_id = doc_id /\ m.tenant_id = tenant_id))

\* VectorStoreService.delete_document_chunks
DeleteDocumentChunks(doc_id, tenant_id) ==
    /\ metadata' = RemainingMetadata(metadata, doc_id, tenant_id)
    /\ lastCall' = Call("delete", TRUE, tenant_id, <<>>, NoChunk)
    /\ hidden' = hidden \cup {<<doc_id, tenant_id>>}
    /\ UNCHANGED <<index, diskIndexFile, diskMetaFile, saveFailures>>
    /\ UNCHANGED othersVS

\* EmbeddingService.generate_embedding: the external model, as a table
Embed(query) == IF query = "near" THEN 0 ELSE 10

\* candidate.copy() with its rerank_rank (the value of rerank_score, a float
\* of the text signals, is not carried)
Ranked(candidate, rank) ==
    [k \in DOMAIN candidate \cup {"rerank_rank"} |->
        IF k = "rerank_rank" THEN rank ELSE candidate[k]]

\* RerankerService.rerank: at most top_n candidates pass through untouched; of more,
\* top_n are kept in the order of their combined scores, which the text signals
\* decide (any order), each candidate keeping its own "score"
Rerankings(candidates, top_n) ==
    IF Len(candidates) <= top_n
    THEN {candidates}
    ELSE {[p \in 1..top_n |-> Ranked(candidates[f[p]], p)] :
            f \in {g \in [1..top_n -> 1..Len(candidates)] :
                     \A a, b \in 1..top_n : a # b => g[a] # g[b]}}

\* the results of retrieve_documents: the ranked candidates' chunk_id, doc_id,
\* text and score with their rank (metadata and snippet are not carried)
FormatResults(ranked_results) ==
    [i \in DOMAIN ranked_results |->
        [chunk_id |-> ranked_results[i].chunk_id, doc_id |-> ranked_results[i].doc_id,
         text |-> ranked_results[i].text, score |-> ranked_results[i].score,
         rank |-> i]]

\* RetrievalService.retrieve_documents
RetrieveDocuments(query, tenant_id, top_k, top_n) ==
    /\ \E candidates \in SearchResults(index, metadata, Embed(query), tenant_id, top_k,
                                       SIMILARITY_THRESHOLD) :
          \E ranked \in Rerankings(candidates, top_n) :
              lastCall' = Call("retrieve", TRUE, tenant_id, FormatResults(ranked), NoChunk)
    /\ UNCHANGED <<index, metadata, diskIndexFile, diskMetaFile, hidden, saveFailures>>
    /\ UNCHANGED othersVS

\* RetrievalService.retrieve_documents when generate_embedding raises: the except
\* branch returns the empty list
RetrieveDocumentsEmbeddingFails(tenant_id) ==
    /\ lastCall' = Call("retrieve", FALSE, tenant_id, <<>>, NoChunk)
    /\ UNCHANGED <<index, metadata, diskIndexFile, diskMetaFile, hidden, saveFailures>>
    /\ UNCHANGED othersVS

\* RetrievalService.retrieve_documents when self.index.search raises: the except
\* branch of VectorStoreService.search returns the empty list, and
\* retrieve_documents returns the empty list for "no candidates"
RetrieveDocumentsSearchFails(tenant_id) ==
    /\ lastCall' = Call("retrieve", FALSE, tenant_id,
                        SearchLoop(metadata, <<>>, 1, tenant_id, SIMILARITY_THRESHOLD),
                        NoChunk)
    /\ UNCHANGED <<index, metadata, diskIndexFile, diskMetaFile, hidden, saveFailures>>
    /\ UNCHANGED othersVS

\* the process ends and VectorStoreService.__init__ runs again on the same directory
Restart ==
    LET loaded == LoadIndex(diskIndexFile, diskMetaFile)
    IN  /\ lastCall.op # "restart"
        /\ index' = loaded.index
        /\ metadata' = loaded.metadata
        /\ lastCall' = Call("restart", TRUE, "", <<>>, NoChunk)
        /\ hidden' = {}
        /\ UNCHANGED <<diskIndexFile, diskMetaFile, saveFailures>>
        /\ UNCHANGED othersVS

InitVS ==
    /\ index = <<>>
    /\ metadata = <<>>
    /\ diskIndexFile = NoFile
    /\ diskMetaFile = NoFile
    /\ lastCall = Call("none", TRUE, "", <<>>, NoChunk)
    /\ hidden = {}
    /\ saveFailures = 0

NextVS ==
    \/ \E c \in ChunkIds, d \in DocIds, t \in Tenants, e \in Embeddings,
          o \in SaveOutcomes : \E x \in TextsOf(t) : AddChunk(c, d, t, x, e, o)
    \/ \E d \in DocIds, t \in Tenants : DeleteDocumentChunks(d, t)
    \/ \E q \in QueryTexts, t \in Tenants, l \in Limits :
          RetrieveDocuments(q, t, l.top_k, l.top_n)
    \/ \E t \in Tenants : RetrieveDocumentsEmbeddingFails(t)
    \/ \E t \in Tenants : RetrieveDocumentsSearchFails(t)
    \/ Restart

----------------------------------------------------------------------------
(* Claims about the vector store *)

Answered == lastCall.op = "retrieve" /\ lastCall.ok

ResultsOf(call) == {call.results[p] : p \in 1..Len(call.results)}

StoredFor(tenant_id, r) ==
    \E p \in 1..Len(metadata) :
        /\ metadata[p].tenant_id = tenant_id
        /\ metadata[p].chunk_id = r.chunk_id
        /\ metadata[p].doc_id = r.doc_id
        /\ metadata[p].text = r.text

\* C1: every result of a search issued for tenant T is a chunk that was stored
\* with tenant_id T (it carries one of T's texts and is stored under T); a chunk of
\* another tenant is never returned.
C1_TenantIsolation ==
    Answered =>
        \A r \in ResultsOf(lastCall) :
            r.text \in TextsOf(lastCall.tenant) /\ StoredFor(lastCall.tenant, r)

\* a search for one tenant returned a chunk while the index also holds a chunk of
\* the other tenant
C1_Witness ==
    /\ Answered
    /\ lastCall.results # <<>>
    /\ \E p \in 1..Len(metadata) : metadata[p].tenant_id # lastCall.tenant

\* C7: every candidate returned by retrieve_documents, and so by the search it
\* calls, has a score greater than or equal to the similarity threshold.
C7_ThresholdRespected ==
    Answered => \A r \in ResultsOf(lastCall) : r.score >= SIMILARITY_THRESHOLD

\* a retrieval returned a chunk of the tenant and dropped another chunk of the same
\* tenant that is stored as well
C7_Witness ==
    /\ Answered
    /\ Len(lastCall.results) = 1
    /\ Cardinality({p \in 1..Len(metadata) : metadata[p].tenant_id = lastCall.tenant}) = 2
    /\ index[1] # index[2]

\* C8: when add_chunk returns successfully, the files on disk already hold the
\* added vector and its metadata: a store loaded from them has the chunk.
C8_AcknowledgedWriteIsDurable ==
    (lastCall.op = "add" /\ lastCall.ok) =>
        LET onDisk == LoadIndex(diskIndexFile, diskMetaFile)
            id == lastCall.chunk.index_id
        IN  /\ \E p \in 1..Len(onDisk.metadata) : onDisk.metadata[p] = lastCall.chunk
            /\ id + 1 <= Len(onDisk.index)
            /\ onDisk.index[id + 1] = index[id + 1]

\* an add_chunk returned successfully after an earlier one had raised
C8_Witness ==
    /\ lastCall.op = "add"
    /\ lastCall.ok
    /\ saveFailures > 0

\* what every search may return from a store: all queries, tenants and limits
AllSearches(idx, meta) ==
    [a \in Embeddings \X Tenants \X Limits |->
        SearchResults(idx, meta, a[1], a[2], a[3].top_k, SIMILARITY_THRESHOLD)]

\* C9 (as claimed): after successful adds and deletes only, a restart (reloading
\* index and metadata from disk) yields a store that answers every search as the
\* running store does.
C9_RestartPreservesSearches ==
    saveFailures = 0 =>
        LET onDisk == LoadIndex(diskIndexFile, diskMetaFile)
        IN  AllSearches(onDisk.index, onDisk.metadata) = AllSearches(index, metadata)

\* C10: once delete_document_chunks(doc_id, tenant_id) has returned, no later
\* search of the same running service returns a chunk of that document for that
\* tenant, until a chunk of the document is added again.
C10_DeletedStaysHidden ==
    Answered =>
        \A r \in ResultsOf(lastCall) : <<r.doc_id, lastCall.tenant>> \notin hidden

\* a search returned a chunk of the tenant after a document of the same tenant
\* was deleted, whose vector is still in the index
C10_Witness ==
    /\ Answered
    /\ lastCall.results # <<>>
    /\ \E d \in DocIds : <<d, lastCall.tenant>> \in hidden
    /\ Len(index) > Len(metadata)

\* the last call was a retrieve_documents during which the embedding provider
\* or the index raised; what its caller got back
RetrievalFailed == lastCall.op = "retrieve" /\ ~lastCall.ok
ReturnedToCaller == lastCall.results

\* C27: a retrieval during which the embedding provider or the vector index
\* fails does not come back to the caller as the empty list, which is the
\* valid outcome of a retrieval that found nothing.
C27_RetrievalFailureSurfaced == RetrievalFailed => ReturnedToCaller # <<>>

\* the step is an add_chunk or a delete_document_chunks of another tenant than t
WrittenByAnother(t) == lastCall'.op \in {"add", "delete"} /\ lastCall'.tenant # t
SearchInputs ==
    [q : {Embed(x) : x \in QueryTexts}, top_k : {1, TOP_K_RETRIEVAL},
     threshold : {0, SIMILARITY_THRESHOLD}]

\* C23: tenants do not interfere: a chunk added for another tenant, under
\* whatever chunk_id, or a delete of another tenant's document leaves every
\* search result of tenant t (same query, top_k and threshold) as it was.
C23_TenantsDoNotInterfere ==
    [][\A t \in Tenants : WrittenByAnother(t) =>
          \A s \in SearchInputs :
             SearchResults(index', metadata', s.q, t, s.top_k, s.threshold)
               = SearchResults(index, metadata, s.q, t, s.top_k, s.threshold)]_vars

\* the same for the other tenant's deletes only, and for its adds when it has
\* its own chunk_ids and top_k covers the whole index
C23_DeletesDoNotInterfere ==
    [][\A t \in Tenants : (lastCall'.op = "delete" /\ lastCall'.tenant # t) =>
          \A s \in SearchInputs :
             SearchResults(index', metadata', s.q, t, s.top_k, s.threshold)
               = SearchResults(index, metadata, s.q, t, s.top_k, s.threshold)]_vars
C23_AddsOfOwnIdsDoNotInterfere ==
    [][\A t \in Tenants :
          (/\ lastCall'.op = "add" /\ lastCall'.tenant # t
           /\ \A p \in DOMAIN metadata : metadata[p].chunk_id # lastCall'.chunk.chunk_id) =>
          \A s \in SearchInputs :
             s.top_k >= Len(index') =>
             SearchResults(index', metadata', s.q, t, s.top_k, s.threshold)
               = SearchResults(index, metadata, s.q, t, s.top_k, s.threshold)]_vars

----------------------------------------------------------------------------
(* QueryPlannerAgent: analyze_query_complexity, decompose_query and
   create_execution_plan *)

MaxSubQueries == 3

\* str.lower() on the words the model carries
Lower(s) ==
    CASE s = "Retrieval" -> "retrieval"
      [] s = "None" -> "none"
      [] s = "Paris" -> "paris"
      [] s = "Paris " -> "paris "
      [] s = "Lyon" -> "lyon"
      [] s = "Compare" -> "compare"
      [] s = "Analysis" -> "analysis"
      [] s = "Synthesis" -> "synthesis"
      [] s = "Find" -> "find"
      [] s = "Check" -> "check"
      [] s = "Extract" -> "extract"
      [] s = "AND" -> "and"
      [] s = "The" -> "the"
      [] s = "Acme" -> "acme"
      [] s = "Hello" -> "hello"
      [] s = "Please" -> "please"
      [] s = "I" -> "i"
      [] s = "It" -> "it"
      [] s = "JavaScript:" -> "javascript:"
      [] s = "<SCRIPT>" -> "<script>"
      [] s = "</SCRIPT>" -> "</script>"
      [] OTHER -> s

\* sub in text
In(sub, text) ==
    \E i \in 1..(Len(text) - Len(sub) + 1) : SubSeq(text, i, i + Len(sub) - 1) = sub

\* str.strip() of a text whose only white space is the blank
RECURSIVE Strip(_)
Strip(s) ==
    IF s = "" THEN s
    ELSE IF SubSeq(s, 1, 1) = " " THEN Strip(SubSeq(s, 2, Len(s)))
    ELSE IF SubSeq(s, Len(s), Len(s)) = " " THEN Strip(SubSeq(s, 1, Len(s) - 1))
    ELSE s

\* s * n
RECURSIVE Repeat(_, _)
Repeat(s, n) ==
    IF n = 0 THEN ""
    ELSE IF n % 2 = 1 THEN s \o Repeat(s, n - 1)
    ELSE LET half == Repeat(s, n \div 2) IN half \o half

\* round(num / den, 2) in hundredths, ties to even
Round2(num, den) ==
    LET q == (100 * num) \div den
        r == (100 * num) % den
    IN IF 2 * r < den THEN q
       ELSE IF 2 * r > den THEN q + 1
       ELSE IF q % 2 = 0 THEN q ELSE q + 1

\* int(text): defined on the decimal numerals, raises on anything else
IsNumeral(s) == s \in {ToString(k) : k \in 0..9}
IntOf(s) == CHOOSE k \in 0..9 : ToString(k) = s

\* A response line "<head>: a, b": its head and the comma-separated items of
\* what follows the colon (no item when nothing follows it).
Line(head, items) == [head |-> head, items |-> items]

\* Python dicts with a varying set of keys: d[k] = v and d.get(k, default);
\* the empty dict is <<>>
Put(d, k, v) == [x \in DOMAIN d \cup {k} |-> IF x = k THEN v ELSE d[x]]
Get(d, k, default) == IF k \in DOMAIN d THEN d[k] ELSE default

NewQuery(text) ==
    [sub_query |-> text, query_type |-> "retrieval", priority |-> 1,
     dependencies |-> <<>>]

ParsePriority(items) ==
    IF Len(items) = 1 /\ IsNumeral(items[1]) THEN IntOf(items[1]) ELSE 1

ParseDependencies(items, before) ==
    IF items = <<>> \/ (Len(items) = 1 /\ Lower(items[1]) = "none")
    THEN before ELSE items

\* what follows the colon of a Sub-query or Type line
RestOf(line) == IF line.items = <<>> THEN "" ELSE line.items[1]

\* The loop of _parse_decomposition and the test after it.  A Type, Priority
\* or Dependencies line met before any Sub-query line sets its key in the
\* empty dict; the final current_query["sub_query"] then raises KeyError when
\* that dict is still the current one.
RECURSIVE ParseLines(_, _, _)
ParseLines(lines, sub_queries, current_query) ==
    IF lines = <<>>
    THEN IF DOMAIN current_query = {}
         THEN [raised |-> FALSE, sub_queries |-> sub_queries]
         ELSE IF "sub_query" \notin DOMAIN current_query
         THEN [raised |-> TRUE, sub_queries |-> <<>>]
         ELSE IF current_query["sub_query"] # ""
         THEN [raised |-> FALSE, sub_queries |-> Append(sub_queries, current_query)]
         ELSE [raised |-> FALSE, sub_queries |-> sub_queries]
    ELSE LET line == Head(lines)
             rest == Tail(lines)
         IN CASE line.head = "Sub-query" ->
                   ParseLines(rest,
                       IF DOMAIN current_query = {} THEN sub_queries
                       ELSE Append(sub_queries, current_query),
                       NewQuery(RestOf(line)))
              [] line.head = "Type" ->
                   ParseLines(rest, sub_queries,
                       Put(current_query, "query_type", Lower(RestOf(line))))
              [] line.head = "Priority" ->
                   ParseLines(rest, sub_queries,
                       Put(current_query, "priority", ParsePriority(line.items)))
              [] line.head = "Dependencies" ->
                   ParseLines(rest, sub_queries,
                       IF ParseDependencies(line.items, <<>>) = <<>> THEN current_query
                       ELSE Put(current_query, "dependencies", line.items))
              [] OTHER -> ParseLines(rest, sub_queries, current_query)

\* _parse_decomposition: the except branch returns the empty list
ParseDecomposition(response) ==
    LET parsed == ParseLines(response, <<>>, <<>>)
    IN IF parsed.raised THEN <<>> ELSE parsed.sub_queries

\* The sub-query texts of the model: "q1", "q2", ... and, for the
\* adjustments of _estimate_difficulty, a text that holds the word "complex"
\* and one of 101 characters
ComplexText == "complex q1"
LongText == "q2 " \o Repeat("x", 98)
\* len(question) > 100
ExceedsHundred(question) == Len(question) > 100
\* any(word in question.lower() for word in ["complex", "detailed",
\* "comprehensive"])
HoldsComplexityWord(question) ==
    \E word \in {"complex", "detailed", "comprehensive"} : In(word, Lower(question))

\* _estimate_difficulty
TypeDifficulty(query_type) ==
    CASE query_type = "retrieval" -> 1
      [] query_type = "analysis" -> 2
      [] query_type = "comparison" -> 3
      [] query_type = "synthesis" -> 4
      [] query_type = "reasoning" -> 3
      [] OTHER -> 2

EstimateDifficulty(query) ==
    LET question == Get(query, "sub_query", "")
        base_difficulty ==
            TypeDifficulty(Get(query, "query_type", "retrieval"))
              + (IF ExceedsHundred(question) THEN 1 ELSE 0)
              + (IF HoldsComplexityWord(question) THEN 1 ELSE 0)
    IN IF base_difficulty <= 2 THEN "easy"
       ELSE IF base_difficulty <= 3 THEN "medium" ELSE "hard"

\* ready_queries of one pass: the remaining queries, in order, all of whose
\* dependencies are among the sub_query texts already in execution_order
ReadyQueries(execution_order, remaining) ==
    LET placed == {Get(execution_order[j], "sub_query", "") :
                      j \in DOMAIN execution_order}
        deps(q) == Get(q, "dependencies", <<>>)
    IN SelectSeq(remaining,
           LAMBDA q : \A j \in DOMAIN deps(q) : deps(q)[j] \in placed)

PriorityOf(q) == Get(q, "priority", 1)

\* max(remaining, key=priority): the first query of the largest priority number
MaxPriority(remaining) ==
    remaining[CHOOSE j \in DOMAIN remaining :
        /\ \A k \in DOMAIN remaining : PriorityOf(remaining[k]) <= PriorityOf(remaining[j])
        /\ \A k \in 1..(j - 1) : PriorityOf(remaining[k]) < PriorityOf(remaining[j])]

\* ready_queries.sort(key=priority)[0]: the first query of the smallest number
FirstByPriority(ready_queries) ==
    ready_queries[CHOOSE j \in DOMAIN ready_queries :
        /\ \A k \in DOMAIN ready_queries :
              PriorityOf(ready_queries[k]) >= PriorityOf(ready_queries[j])
        /\ \A k \in 1..(j - 1) :
              PriorityOf(ready_queries[k]) > PriorityOf(ready_queries[j])]

\* mutant of RemoveFirst: a remove that drops every element equal to x
RemoveAll(seq, x) == SelectSeq(seq, LAMBDA e : e # x)

\* list.remove(x): drops the first element equal to x
RemoveFirst(seq, x) ==
    LET j == CHOOSE k \in DOMAIN seq :
                 seq[k] = x /\ \A m \in 1..(k - 1) : seq[m] # x
    IN [m \in 1..(Len(seq) - 1) |-> IF m < j THEN seq[m] ELSE seq[m + 1]]

RECURSIVE PlanLoop(_, _)
PlanLoop(execution_order, remaining) ==
    IF remaining = <<>> THEN execution_order
    ELSE LET ready == ReadyQueries(execution_order, remaining)
             ready_queries == IF ready = <<>> THEN <<MaxPriority(remaining)>>
                              ELSE ready
             next_query == FirstByPriority(ready_queries)
         IN PlanLoop(Append(execution_order, next_query),
                     RemoveFirst(remaining, next_query))

Planned(query, i) ==
    Put(Put(query, "execution_order", i),
        "estimated_difficulty", EstimateDifficulty(query))

ExecutionPlan(sub_queries) ==
    LET execution_order == PlanLoop(<<>>, sub_queries)
    IN [i \in DOMAIN execution_order |-> Planned(execution_order[i], i)]

\* create_execution_plan writes execution_order and estimated_difficulty into
\* the dicts of sub_queries themselves: the list decompose_query returned
\* shows them too, in its own order.  Of equal dicts the first one is planned
\* first.
Occurrence(seq, i) == Cardinality({j \in 1..i : seq[j] = seq[i]})
SubQueriesAsPlanned(sub_queries) ==
    LET execution_order == PlanLoop(<<>>, sub_queries)
        IsPlace(i, p) == /\ execution_order[p] = sub_queries[i]
                         /\ Occurrence(execution_order, p) = Occurrence(sub_queries, i)
    IN [i \in DOMAIN sub_queries |->
           IF \E p \in DOMAIN execution_order : IsPlace(i, p)
           THEN Planned(sub_queries[i],
                        CHOOSE p \in DOMAIN execution_order : IsPlace(i, p))
           ELSE sub_queries[i]]

\* The responses the model feeds in: one block of four lines per sub-query,
\* in the format the decomposition prompt asks for.  Dependencies are written
\* as sub-query numbers (what the prompt asks for) or as sub-query texts; in
\* the style "repeated" the LLM writes the same text for every sub-query; in
\* the style "varied" the texts and the types differ from one sub-query to
\* the next.
DepStyles == {"number", "text", "repeated", "varied"}
PriorityTexts == {"1", "2"}
SubQueryText(style, i) ==
    CASE style = "repeated" -> "q1"
      [] style = "varied" /\ i = 1 -> ComplexText
      [] style = "varied" /\ i = 2 -> LongText
      [] OTHER -> "q" \o ToString(i)
TypeText(style, i) ==
    CASE style = "varied" /\ i \in {1, 2} -> "Analysis"
      [] style = "varied" /\ i = 3 -> "Synthesis"
      [] OTHER -> "Retrieval"
DepItem(style, k) == IF style = "number" THEN ToString(k) ELSE SubQueryText(style, k)

RECURSIVE Ascending(_)
Ascending(S) ==
    IF S = {} THEN <<>>
    ELSE LET m == CHOOSE x \in S : \A y \in S : x <= y
         IN <<m>> \o Ascending(S \ {m})

Block(i, style, prio, deps) ==
    LET ds == Ascending(deps)
    IN << Line("Sub-query", <<SubQueryText(style, i)>>),
          Line("Type", <<TypeText(style, i)>>),
          Line("Priority", <<prio>>),
          Line("Dependencies",
               IF deps = {} THEN <<"none">>
               ELSE [j \in DOMAIN ds |-> DepItem(style, ds[j])]) >>

RECURSIVE Response(_, _, _, _)
Response(n, style, prio, deps) ==
    IF n = 0 THEN <<>>
    ELSE Response(n - 1, style, prio, deps) \o Block(n, style, prio[n], deps[n])

\* analyze_query_complexity -------------------------------------------------
\* A question is its words in order, a question mark being a word of its own;
\* the text is the words joined by single blanks.
RECURSIVE Text(_)
Text(words) ==
    IF words = <<>> THEN ""
    ELSE IF Len(words) = 1 THEN words[1]
    ELSE words[1] \o " " \o Text(Tail(words))

\* re.search(r'\bw1\s+w2\b', question, re.IGNORECASE) for a phrase of words
SearchPhrase(phrase, words) ==
    \E p \in 1..(Len(words) - Len(phrase) + 1) :
        \A m \in DOMAIN phrase : Lower(words[p + m - 1]) = phrase[m]

\* r'\bw1\s+w2\s+' : the phrase with more text after it
SearchPhraseThenBlank(phrase, words) ==
    \E p \in 1..(Len(words) - Len(phrase)) :
        \A m \in DOMAIN phrase : Lower(words[p + m - 1]) = phrase[m]

SearchAny(phrases, words) == \E phrase \in phrases : SearchPhrase(phrase, words)

multi_part_indicators ==
    {<<"and">>, <<"or">>, <<"but">>, <<"however">>, <<"compare">>, <<"contrast">>}
multi_part_openers == {<<"what", "and">>, <<"how", "and">>, <<"why", "and">>}
comparison_indicators ==
    {<<"compare">>, <<"contrast">>, <<"versus">>, <<"vs">>, <<"better">>, <<"worse">>,
     <<"more">>, <<"less">>, <<"difference">>, <<"similar">>, <<"different">>,
     <<"than">>, <<"compared", "to">>}
temporal_indicators ==
    {<<"when">>, <<"time">>, <<"date">>, <<"year">>, <<"month">>, <<"day">>,
     <<"period">>, <<"duration">>, <<"before">>, <<"after">>, <<"during">>,
     <<"while">>, <<"until">>, <<"since">>, <<"ago">>, <<"later">>, <<"now">>,
     <<"then">>, <<"current">>, <<"previous">>}
conditional_indicators ==
    {<<"if">>, <<"when">>, <<"unless">>, <<"provided">>, <<"assuming">>,
     <<"suppose">>, <<"what", "if">>, <<"would">>, <<"could">>, <<"should">>,
     <<"might">>}
aggregation_indicators ==
    {<<"total">>, <<"sum">>, <<"average">>, <<"mean">>, <<"count">>, <<"number">>,
     <<"how", "many">>, <<"all">>, <<"every">>, <<"each">>, <<"most">>, <<"least">>,
     <<"highest">>, <<"lowest">>, <<"maximum">>, <<"minimum">>, <<"overall">>,
     <<"combined">>}
reasoning_indicators ==
    {<<"why">>, <<"how">>, <<"explain">>, <<"describe">>, <<"analyze">>,
     <<"evaluate">>, <<"assess">>, <<"implications">>, <<"consequences">>,
     <<"effects">>, <<"causes">>, <<"reasons">>, <<"factors">>, <<"process">>,
     <<"mechanism">>, <<"approach">>}

HasMultipleParts(question) ==
    \/ SearchAny(multi_part_indicators, question)
    \/ \E phrase \in multi_part_openers : SearchPhraseThenBlank(phrase, question)
    \/ \E p, q \in DOMAIN question : p < q /\ question[p] = "?" /\ question[q] = "?"
HasComparison(question) == SearchAny(comparison_indicators, question)
HasTemporalElements(question) == SearchAny(temporal_indicators, question)
HasConditionalLogic(question) == SearchAny(conditional_indicators, question)
HasAggregation(question) == SearchAny(aggregation_indicators, question)
RequiresReasoning(question) == SearchAny(reasoning_indicators, question)

ComplexityIndicators(question) ==
    [multi_part |-> HasMultipleParts(question),
     comparison |-> HasComparison(question),
     temporal |-> HasTemporalElements(question),
     conditional |-> HasConditionalLogic(question),
     aggregation |-> HasAggregation(question),
     reasoning |-> RequiresReasoning(question)]

\* sum(complexity_indicators.values())
Matching(indicators) == Cardinality({k \in DOMAIN indicators : indicators[k]})

\* complexity_score >= 0.7 and >= 0.4 on the fraction matching / 6
ComplexityLevel(matching) ==
    IF 10 * matching >= 7 * 6 THEN "high"
    ELSE IF 10 * matching >= 4 * 6 THEN "medium" ELSE "low"

\* mutant of RequiresMultiHop: the level's threshold 0.4 taken for 0.5
RequiresMultiHopAtMedium(matching) == 10 * matching >= 4 * 3

\* complexity_score >= 0.5
RequiresMultiHop(matching) == 2 * matching >= 6

\* The result of analyze_query_complexity; complexity_score in hundredths.
analyze_query_complexity(question) ==
    LET complexity_indicators == ComplexityIndicators(question)
        matching == Matching(complexity_indicators)
    IN [complexity_score |-> Round2(matching, 6),
        complexity_level |-> ComplexityLevel(matching),
        indicators |-> complexity_indicators,
        requires_multi_hop |-> RequiresMultiHop(matching)]

\* _create_simple_decomposition ----------------------------------------------
\* question.split(sep) for sep a word between blanks: the parts, as words.  A
\* word is a separator when it has a blank on both sides that no separator
\* before it has taken.
RECURSIVE SplitFrom(_, _, _, _, _)
SplitFrom(words, sep, p, part, taken) ==
    IF p > Len(words) THEN <<part>>
    ELSE IF words[p] = sep /\ p > 1 /\ p < Len(words) /\ ~taken
    THEN <<part>> \o SplitFrom(words, sep, p + 1, <<>>, TRUE)
    ELSE SplitFrom(words, sep, p + 1, Append(part, words[p]), FALSE)
Split(words, sep) == SplitFrom(words, sep, 1, <<>>, FALSE)

\* ' and ' in question.lower()
HasBetweenBlanks(words, sep) ==
    \E p \in 2..(Len(words) - 1) : Lower(words[p]) = sep

Retrieval(text, priority) ==
    [sub_query |-> text, query_type |-> "retrieval", priority |-> priority,
     dependencies |-> <<>>]

\* raised: parts[1] does not exist when the only conjunction is not in lower case
CreateSimpleDecomposition(question) ==
    LET two(sep, second_priority) ==
            LET parts == Split(question, sep)
            IN IF Len(parts) < 2 THEN [raised |-> TRUE, sub_queries |-> <<>>]
               ELSE [raised |-> FALSE,
                     sub_queries |-> << Retrieval(Text(parts[1]), 1),
                                        Retrieval(Text(parts[2]), second_priority) >>]
    IN IF HasBetweenBlanks(question, "and") THEN two("and", 2)
       ELSE IF HasBetweenBlanks(question, "or") THEN two("or", 1)
       ELSE [raised |-> FALSE, sub_queries |-> <<Retrieval(Text(question), 1)>>]

\* decompose_query -----------------------------------------------------------
Simple(text) ==
    [sub_query |-> text, query_type |-> "simple", priority |-> 1,
     dependencies |-> <<>>]

\* the except branch: the single sub-query with the error's text
SimpleWithError(text, error) == Put(Simple(text), "error", error)

\* llm: what self.llm.ainvoke does, [raises |-> TRUE] or the response's lines
decompose_query(question, llm) ==
    LET complexity == analyze_query_complexity(question)
    IN IF ~complexity.requires_multi_hop THEN <<Simple(Text(question))>>
       ELSE IF llm.raises THEN <<SimpleWithError(Text(question), "llm")>>
       ELSE LET sub_queries == ParseDecomposition(llm.response)
            IN IF sub_queries # <<>> THEN sub_queries
               ELSE LET simple == CreateSimpleDecomposition(question)
                    IN IF simple.raised
                       THEN <<SimpleWithError(Text(question), "list index out of range")>>
                       ELSE simple.sub_queries

\* The questions: zero to six matching indicators, each fallback of
\* _create_simple_decomposition, a conjunction in upper case.
PlannerQuestions ==
    { <<"plans">>,
      <<"plans", "and", "budgets">>,
      <<"when", "plans">>,
      <<"Compare", "plans">>,
      <<"what", "if", "plans", "compared", "to", "budgets">>,
      <<"compare", "plans", "and", "budgets", "before", "launch">>,
      <<"how", "many", "plans", "?", "budgets", "?">>,
      <<"why", "compare", "plans", "before", "launch">>,
      <<"why", "compare", "plans", "and", "budgets", "before", "launch">>,
      <<"why", "compare", "plans", "AND", "budgets", "before", "launch">>,
      <<"why", "compare", "plans", "or", "budgets", "before", "launch">>,
      <<"why", "compare", "all", "plans", "and", "budgets", "before", "launch">>,
      <<"why", "should", "all", "plans", "and", "budgets", "compare", "before", "launch">> }
MultiHopQuestion == <<"why", "compare", "plans", "and", "budgets", "before", "launch">>

\* What the language model may do besides answering in the format asked for:
\* fail, say nothing, say something else, open with a line of a block before
\* the first Sub-query line, leave out a colon.
NoLLM == [raises |-> FALSE, response |-> <<>>]
Responds(response) == [raises |-> FALSE, response |-> response]
OtherOutcomes ==
    { [raises |-> TRUE, response |-> <<>>],
      Responds(<<>>),
      Responds(<<Line("Here", <<"you", "go">>)>>),
      Responds(<<Line("Type", <<"Retrieval">>)>>),
      Responds(<<Line("Type", <<"Retrieval">>)>> \o Block(1, "number", "1", {})),
      Responds(<<Line("Priority", <<"2">>), Line("Dependencies", <<"1">>)>>
                   \o Block(1, "number", "1", {})),
      Responds(<<Line("Sub-query", <<>>)>> \o Block(2, "number", "1", {})),
      Responds(Block(1, "number", "1", {})) }


InitPA ==
    /\ paPc = "asked"
    /\ paQuestion \in PlannerQuestions
    /\ paLlm = NoLLM
    /\ paComplexity = <<>>
    /\ paSubQueries = <<>>
    /\ paPlan = <<>>

\* decompose_query(question) up to its first suspension: the analysis, which
\* awaits nothing, then the return of the single sub-query for a question
\* that needs no multi-hop, or the call of self.llm.ainvoke, which is awaited
AgentDecomposeQuery ==
    /\ paPc = "asked"
    /\ paComplexity' = analyze_query_complexity(paQuestion)
    /\ IF analyze_query_complexity(paQuestion).requires_multi_hop
       THEN paPc' = "awaiting" /\ paSubQueries' = paSubQueries
       ELSE paPc' = "decomposed" /\ paSubQueries' = <<Simple(Text(paQuestion))>>
    /\ UNCHANGED <<paQuestion, paLlm, paPlan>>
    /\ UNCHANGED othersPA

\* the awaited LLM call returns or raises, and decompose_query runs to its
\* return: the parse, the fallbacks and the except branch
AgentLlmReturns(llm) ==
    /\ paPc = "awaiting"
    /\ paLlm' = llm
    /\ paSubQueries' = decompose_query(paQuestion, llm)
    /\ paPc' = "decomposed"
    /\ UNCHANGED <<paQuestion, paComplexity, paPlan>>
    /\ UNCHANGED othersPA

\* create_execution_plan: its return value, and the two keys it writes into
\* the dicts of the list it was given
CreateExecutionPlan ==
    /\ paPc = "decomposed"
    /\ paPlan' = ExecutionPlan(paSubQueries)
    /\ paSubQueries' = SubQueriesAsPlanned(paSubQueries)
    /\ paPc' = "planned"
    /\ UNCHANGED <<paQuestion, paLlm, paComplexity>>
    /\ UNCHANGED othersPA

NextPA ==
    \/ AgentDecomposeQuery
    \/ \E llm \in OtherOutcomes : AgentLlmReturns(llm)
    \/ /\ paQuestion = MultiHopQuestion
       /\ paPc = "awaiting"
       /\ \E n \in 1..MaxSubQueries, style \in DepStyles :
            \E prio \in [1..n -> PriorityTexts], deps \in [1..n -> SUBSET (1..n)] :
               /\ \A i \in 1..n : i \notin deps[i]
               /\ AgentLlmReturns(Responds(Response(n, style, prio, deps)))
    \/ CreateExecutionPlan

IdlePA ==
    /\ paPc = "off"
    /\ paQuestion = <<>>
    /\ paLlm = NoLLM
    /\ paComplexity = <<>>
    /\ paSubQueries = <<>>
    /\ paPlan = <<>>

----------------------------------------------------------------------------
(* Claims about the planner agent *)

DependenciesOf(query) == Get(query, "dependencies", <<>>)
TextOf(query) == Get(query, "sub_query", "")

\* the sub-queries of the list that sub-query i declares a dependency on,
\* whether the declaration gives their number or their text
DeclaredDependencies(sub_queries, i) ==
    {k \in DOMAIN sub_queries :
        \E j \in DOMAIN DependenciesOf(sub_queries[i]) :
            DependenciesOf(sub_queries[i])[j] \in {ToString(k), TextOf(sub_queries[k])}}

RefersOnlyToList(sub_queries) ==
    \A i \in DOMAIN sub_queries : \A j \in DOMAIN DependenciesOf(sub_queries[i]) :
        \E k \in DOMAIN sub_queries :
            DependenciesOf(sub_queries[i])[j] \in {ToString(k), TextOf(sub_queries[k])}

RECURSIVE Unplaceable(_, _)
Unplaceable(sub_queries, S) ==
    IF \E i \in S : DeclaredDependencies(sub_queries, i) \cap S = {}
    THEN Unplaceable(sub_queries,
             S \ {CHOOSE i \in S : DeclaredDependencies(sub_queries, i) \cap S = {}})
    ELSE S

Satisfiable(sub_queries) ==
    /\ RefersOnlyToList(sub_queries)
    /\ Unplaceable(sub_queries, DOMAIN sub_queries) = {}

PlaceOf(plan, text) == CHOOSE j \in DOMAIN plan : TextOf(plan[j]) = text

\* C3: when the declared dependencies are satisfiable (acyclic, and each one
\* names a sub-query of the list), the plan of create_execution_plan places
\* every sub-query strictly after each sub-query it depends on.
C3_TopologicalValidity ==
    (paPc = "planned" /\ Satisfiable(paSubQueries)) =>
        \A i \in DOMAIN paSubQueries :
            \A k \in DeclaredDependencies(paSubQueries, i) :
                PlaceOf(paPlan, TextOf(paSubQueries[k]))
                    < PlaceOf(paPlan, TextOf(paSubQueries[i]))

\* C11: decompose_query returns, for every question and every outcome of the
\* LLM call, a non-empty list of sub-queries that each carry a sub-query text,
\* a type, a priority and a dependency list.
Decomposed == paPc \in {"decomposed", "planned"}
SubQueryKeys == {"sub_query", "query_type", "priority", "dependencies"}
C11_DecompositionNeverFails ==
    Decomposed =>
        /\ paSubQueries # <<>>
        /\ \A i \in DOMAIN paSubQueries : SubQueryKeys \subseteq DOMAIN paSubQueries[i]

\* C17 as stated: the reported score is the fraction matching / 6, the level
\* is low, medium or high, and requires_multi_hop holds exactly when the
\* score is at least 0.5, which is when at least three indicators match.
Levels == {"low", "medium", "high"}
C17_ScoreIsFraction ==
    Decomposed =>
        /\ 6 * paComplexity.complexity_score = 100 * Matching(paComplexity.indicators)
        /\ paComplexity.complexity_level \in Levels
        /\ paComplexity.requires_multi_hop <=> paComplexity.complexity_score >= 50
        /\ paComplexity.requires_multi_hop <=> Matching(paComplexity.indicators) >= 3

\* C17, amended: the reported score is that fraction rounded to two decimal
\* places (within half a hundredth of matching / 6); the level is low, medium
\* or high; requires_multi_hop holds exactly when the score is at least 0.5,
\* which is when at least three of the six indicators match.
C17_ScoreIsRoundedFraction ==
    Decomposed =>
        /\ DOMAIN paComplexity.indicators =
               {"multi_part", "comparison", "temporal", "conditional",
                "aggregation", "reasoning"}
        /\ 6 * paComplexity.complexity_score - 100 * Matching(paComplexity.indicators)
               \in -3..3
        /\ paComplexity.complexity_level \in Levels
        /\ paComplexity.requires_multi_hop <=> paComplexity.complexity_score >= 50
        /\ paComplexity.requires_multi_hop <=> Matching(paComplexity.indicators) >= 3

\* five of six indicators match: score 0.83, multi-hop
C17_Witness ==
    /\ paPc = "decomposed"
    /\ Matching(paComplexity.indicators) = 5
    /\ paComplexity.complexity_score = 83
    /\ paComplexity.requires_multi_hop

\* The plan read back: the sub-query placed at k as create_execution_plan
\* took it (without the two keys written at the end), the queries placed
\* before it, and those that remained when it was chosen.
AsTaken(planned) ==
    [x \in DOMAIN planned \ {"execution_order", "estimated_difficulty"} |-> planned[x]]
GivenSubQueries == [i \in DOMAIN paSubQueries |-> AsTaken(paSubQueries[i])]
PlacedBefore(k) == [j \in 1..(k - 1) |-> AsTaken(paPlan[j])]
RECURSIVE RemainingAt(_)
RemainingAt(k) ==
    IF k = 1 THEN GivenSubQueries
    ELSE RemoveFirst(RemainingAt(k - 1), AsTaken(paPlan[k - 1]))
NoneReady(k) == ReadyQueries(PlacedBefore(k), RemainingAt(k)) = <<>>

\* C21: when no remaining sub-query is ready, the one scheduled next is the
\* highest-priority one of the remaining, priority 1 being the highest: none
\* of the remaining has a smaller priority number.
C21_DeadlockBreaksByPriority ==
    paPc = "planned" =>
        \A k \in DOMAIN paPlan :
            NoneReady(k) =>
                \A j \in DOMAIN RemainingAt(k) :
                    PriorityOf(paPlan[k]) <= PriorityOf(RemainingAt(k)[j])

\* the plan is the input in another order: a one-to-one matching of places
IsPermutation(plan, sub_queries) ==
    /\ Len(plan) = Len(sub_queries)
    /\ \E f \in [DOMAIN plan -> DOMAIN sub_queries] :
          /\ \A a, b \in DOMAIN plan : a # b => f[a] # f[b]
          /\ \A a \in DOMAIN plan : AsTaken(plan[a]) = sub_queries[f[a]]

\* C28: create_execution_plan returns for every list of sub-queries, with
\* cycles, dangling dependencies and duplicates: each pass of its loop takes
\* one of the remaining sub-queries away, and the plan holds every input
\* sub-query exactly once, with execution_order 1..n in plan order.
C28_PlanIsPermutation ==
    paPc = "planned" =>
        /\ IsPermutation(paPlan, GivenSubQueries)
        /\ \A k \in DOMAIN paPlan :
              /\ paPlan[k]["execution_order"] = k
              /\ Len(RemainingAt(k)) = Len(paSubQueries) - k + 1
              /\ \E j \in DOMAIN RemainingAt(k) : RemainingAt(k)[j] = AsTaken(paPlan[k])

\* a plan of three sub-queries, two of them equal, made with no sub-query
\* ready at some pass (a cycle or a dangling dependency)
C28_Witness ==
    /\ paPc = "planned"
    /\ Len(paPlan) = 3
    /\ \E i, j \in DOMAIN paSubQueries : i # j /\ GivenSubQueries[i] = GivenSubQueries[j]
    /\ \E k \in DOMAIN paPlan : NoneReady(k)

\* what the code does instead: none of the remaining has a larger number
C21_DeadlockBreaksByLargestNumber ==
    paPc = "planned" =>
        \A k \in DOMAIN paPlan :
            NoneReady(k) =>
                \A j \in DOMAIN RemainingAt(k) :
                    PriorityOf(paPlan[k]) >= PriorityOf(RemainingAt(k)[j])

----------------------------------------------------------------------------
(* Multi-sample generation: SelfConsistencyAgent, and                      *)
(* LLMOrchestrator._process_with_self_consistency                           *)

MaxSamples == 3

Answers == {"Paris", "paris", "Paris ", "Lyon"}
\* _calculate_trace_confidence depends on the lengths of texts the model does
\* not carry: a trace has any of these confidences (hundredths)
TraceConfidences == {30, 90}
Apology == "I apologize, but I couldn't generate a proper response."
ConsistencyError ==
    "I encountered an error during self-consistency processing. Please try again."

Pending == [status |-> "pending", answer |-> "", confidence |-> 0]
Settled(status, answer, confidence) ==
    [status |-> status, answer |-> answer, confidence |-> confidence]

Count(answers, a) == Cardinality({j \in DOMAIN answers : answers[j] = a})

\* mutant of MostCommon: the first answer, whatever its count
FirstAnswer(answers) == answers[1]

\* Counter(answers).most_common(1)[0][0]: of the answers with the largest
\* count, the one that occurs first
MostCommon(answers) ==
    answers[CHOOSE j \in DOMAIN answers :
        /\ \A k \in DOMAIN answers :
              Count(answers, answers[k]) <= Count(answers, answers[j])
        /\ \A k \in 1..(j - 1) :
              Count(answers, answers[k]) < Count(answers, answers[j])]

\* max(traces, key=confidence): the first trace of the largest confidence
BestTrace(traces) ==
    traces[CHOOSE j \in DOMAIN traces :
        /\ \A k \in DOMAIN traces : traces[k].confidence <= traces[j].confidence
        /\ \A k \in 1..(j - 1) : traces[k].confidence < traces[j].confidence]

\* find_consensus; the returned dict as a record of the keys it has
\* (consensus_confidence, a float average, is not carried)
FindConsensus(traces) ==
    IF traces = <<>>
    THEN [consensus_answer |-> "", agreement_score |-> 0, traces_analyzed |-> 0]
    ELSE LET answers == [j \in DOMAIN traces |-> traces[j].answer]
             most_common_answer == MostCommon(answers)
             count == Count(answers, most_common_answer)
         IN [consensus_answer |-> most_common_answer,
             consensus_reasoning |-> BestTrace(traces).reasoning,
             agreement_score |-> Round2(count, Len(answers)),
             traces_analyzed |-> Len(traces)]

\* the dict _generate_single_trace returns for sample i
Trace(i, sample) ==
    IF sample.status = "ok"
    THEN [trace_id |-> i - 1, answer |-> sample.answer,
          reasoning |-> "reasoning " \o ToString(i - 1),
          confidence |-> sample.confidence]
    ELSE [trace_id |-> i - 1, error |-> "LLM call failed", answer |-> "",
          reasoning |-> "", confidence |-> 0]

\* generate_multiple_traces after gather: the traces without an "error" key,
\* in task order
RECURSIVE ValidTraces(_, _)
ValidTraces(samples, n) ==
    IF n = 0 THEN <<>>
    ELSE ValidTraces(samples, n - 1) \o
         (IF "error" \in DOMAIN Trace(n, samples[n]) THEN <<>>
          ELSE <<Trace(n, samples[n])>>)

\* process_with_consistency: reading consensus["consensus_reasoning"] raises
\* KeyError when find_consensus got no trace, and the handler returns its
\* error dict
ConsistencyResult(traces) ==
    LET consensus == FindConsensus(traces)
    IN IF "consensus_reasoning" \notin DOMAIN consensus
       THEN [answer |-> ConsistencyError, reasoning |-> "", confidence |-> 0,
             error |-> "'consensus_reasoning'"]
       ELSE [answer |-> consensus.consensus_answer,
             reasoning |-> consensus.consensus_reasoning,
             agreement_score |-> consensus.agreement_score,
             traces_analyzed |-> consensus.traces_analyzed,
             individual_traces |-> traces,
             consensus_metadata |-> consensus]

\* _aggregate_answers: <<final answer, confidence>>, the confidence as the
\* fraction <<votes, answers>> (0.5 is <<1, 2>>, 0.0 is <<0, 1>>)
AggregateAnswers(answers) ==
    IF answers = <<>> THEN <<"I couldn't generate a proper answer.", <<0, 1>> >>
    ELSE IF Len(answers) = 1 THEN <<answers[1], <<1, 2>> >>
    ELSE LET normalized == [j \in DOMAIN answers |-> Strip(Lower(answers[j]))]
             most_common_answer == MostCommon(normalized)
             vote_count == Count(normalized, most_common_answer)
             first == CHOOSE j \in DOMAIN answers :
                          /\ normalized[j] = most_common_answer
                          /\ \A k \in 1..(j - 1) : normalized[k] # most_common_answer
         IN <<answers[first], <<vote_count, Len(answers)>> >>

InitSC ==
    /\ scPc = "sampling"
    /\ scImpl \in {"agent", "orchestrator"}
    /\ \E n \in 1..MaxSamples :
          /\ scImpl = "orchestrator" => n > 1
          /\ scSamples = [i \in 1..n |-> Pending]
    /\ scAnswers = <<>>
    /\ scResult = <<>>

\* SelfConsistencyAgent: the gathered tasks settle in any order
GenerateSingleTrace(i, answer, confidence) ==
    /\ scPc = "sampling" /\ scImpl = "agent"
    /\ scSamples[i] = Pending
    /\ scSamples' = [scSamples EXCEPT ![i] = Settled("ok", answer, confidence)]
    /\ UNCHANGED <<scPc, scImpl, scAnswers, scResult>>
    /\ UNCHANGED othersSC

GenerateSingleTraceFails(i) ==
    /\ scPc = "sampling" /\ scImpl = "agent"
    /\ scSamples[i] = Pending
    /\ scSamples' = [scSamples EXCEPT ![i] = Settled("error", "", 0)]
    /\ UNCHANGED <<scPc, scImpl, scAnswers, scResult>>
    /\ UNCHANGED othersSC

ProcessWithConsistency ==
    /\ scPc = "sampling" /\ scImpl = "agent"
    /\ \A i \in DOMAIN scSamples : scSamples[i] # Pending
    /\ scResult' = ConsistencyResult(ValidTraces(scSamples, Len(scSamples)))
    /\ scPc' = "done"
    /\ UNCHANGED <<scImpl, scSamples, scAnswers>>
    /\ UNCHANGED othersSC

\* LLMOrchestrator: the samples are generated one after the other;
\* _generate_answer returns the apology when the LLM call raises
GenerateAnswer(answer) ==
    /\ scPc = "sampling" /\ scImpl = "orchestrator"
    /\ Len(scAnswers) < Len(scSamples)
    /\ scSamples' = [scSamples EXCEPT ![Len(scAnswers) + 1] = Settled("ok", answer, 0)]
    /\ scAnswers' = Append(scAnswers, answer)
    /\ UNCHANGED <<scPc, scImpl, scResult>>
    /\ UNCHANGED othersSC

GenerateAnswerFails ==
    /\ scPc = "sampling" /\ scImpl = "orchestrator"
    /\ Len(scAnswers) < Len(scSamples)
    /\ scSamples' = [scSamples EXCEPT ![Len(scAnswers) + 1] = Settled("error", "", 0)]
    /\ scAnswers' = Append(scAnswers, Apology)
    /\ UNCHANGED <<scPc, scImpl, scResult>>
    /\ UNCHANGED othersSC

ProcessWithSelfConsistency ==
    /\ scPc = "sampling" /\ scImpl = "orchestrator"
    /\ Len(scAnswers) = Len(scSamples)
    /\ scResult' =
          [answer |-> AggregateAnswers(scAnswers)[1],
           confidence |-> AggregateAnswers(scAnswers)[2],
           reasoning_traces |->
               [j \in DOMAIN scAnswers |->
                   [answer |-> scAnswers[j], vote_score |-> <<1, Len(scSamples)>>]]]
    /\ scPc' = "done"
    /\ UNCHANGED <<scImpl, scSamples, scAnswers>>
    /\ UNCHANGED othersSC

NextSC ==
    \/ \E i \in DOMAIN scSamples, a \in Answers, c \in TraceConfidences :
          GenerateSingleTrace(i, a, c)
    \/ \E i \in DOMAIN scSamples : GenerateSingleTraceFails(i)
    \/ ProcessWithConsistency
    \/ \E a \in Answers : GenerateAnswer(a)
    \/ GenerateAnswerFails
    \/ ProcessWithSelfConsistency

IdleSC ==
    /\ scPc = "off"
    /\ scImpl = "none"
    /\ scSamples = <<>>
    /\ scAnswers = <<>>
    /\ scResult = <<>>

----------------------------------------------------------------------------
(* Claims about multi-sample generation *)

AgentTraces == scResult.individual_traces
AgentAnswers == [j \in DOMAIN AgentTraces |-> AgentTraces[j].answer]
AgentAnswered ==
    scPc = "done" /\ scImpl = "agent" /\ "individual_traces" \in DOMAIN scResult

\* C5: for a non-empty list of traces find_consensus returns an answer no
\* other answer of the traces outvotes, an agreement_score that is its vote
\* count over the number of traces to the nearest hundredth (67 for Paris,
\* Paris, Lyon), and traces_analyzed equal to the number of traces.
C5_ConsensusMajority ==
    AgentAnswered =>
        LET consensus == scResult.consensus_metadata
            n == Len(AgentTraces)
            votes == Count(AgentAnswers, consensus.consensus_answer)
        IN /\ n > 0
           /\ votes > 0
           /\ \A j \in DOMAIN AgentAnswers : Count(AgentAnswers, AgentAnswers[j]) <= votes
           /\ 2 * (n * consensus.agreement_score - 100 * votes) <= n
           /\ 2 * (100 * votes - n * consensus.agreement_score) <= n
           /\ consensus.traces_analyzed = n
           /\ AgentAnswers = <<"Paris", "Paris", "Lyon">> =>
                 /\ consensus.consensus_answer = "Paris"
                 /\ consensus.agreement_score = 67

C5_Witness ==
    /\ AgentAnswered
    /\ AgentAnswers = <<"Paris", "Paris", "Lyon">>
    /\ scResult.consensus_metadata.agreement_score = 67
    /\ scResult.consensus_metadata.traces_analyzed = 3

Succeeded == {i \in DOMAIN scSamples : scSamples[i].status = "ok"}
Failed(result) == "error" \in DOMAIN result
VotedTraces(result) ==
    IF "individual_traces" \in DOMAIN result THEN result.individual_traces
    ELSE IF "reasoning_traces" \in DOMAIN result THEN result.reasoning_traces
    ELSE <<>>

\* C6: when multi-sample generation has returned, it failed exactly when no
\* sample succeeded; otherwise the traces voted on are those of the samples
\* that succeeded and no other, and the answer is one a succeeded sample gave.
C6_PartialFailureTolerance ==
    scPc = "done" =>
        /\ Failed(scResult) <=> Succeeded = {}
        /\ ~Failed(scResult) =>
              /\ Len(VotedTraces(scResult)) = Cardinality(Succeeded)
              /\ \A j \in DOMAIN VotedTraces(scResult) :
                    \E i \in Succeeded :
                        scSamples[i].answer = VotedTraces(scResult)[j].answer
              /\ \E i \in Succeeded : scSamples[i].answer = scResult.answer

\* The generation of sample i has been started.  asyncio.gather starts the
\* agent's tasks together; the orchestrator's loop starts a generation when
\* the one before it has returned.
SampleStarted(i) ==
    IF scImpl = "agent" THEN scPc \in {"sampling", "done"}
    ELSE i <= Len(scAnswers) + 1
SampleSettled(i) == scSamples[i] # Pending

\* C20: multi-sample generation is a parallel fan-out with a fan-in: every
\* sample has been started before any sample has settled, the consensus is
\* computed only when every sample has settled, and it is handed no more
\* traces than there are samples.
C20_ParallelFanOut ==
    /\ (\E i \in DOMAIN scSamples : SampleSettled(i)) =>
          \A j \in DOMAIN scSamples : SampleStarted(j)
    /\ scPc = "done" =>
          /\ \A i \in DOMAIN scSamples : SampleSettled(i)
          /\ Len(VotedTraces(scResult)) <= Len(scSamples)

\* the same for the agent alone, and the fan-in alone for both
C20_AgentFanOut == scImpl = "agent" => C20_ParallelFanOut
C20_FanIn ==
    scPc = "done" =>
        /\ \A i \in DOMAIN scSamples : SampleSettled(i)
        /\ Len(VotedTraces(scResult)) <= Len(scSamples)

NormalizedVotes(traces) == [j \in DOMAIN traces |-> Strip(Lower(traces[j].answer))]
\* the normalized answers no other normalized answer outvotes
MajorityAnswers(traces) ==
    {NormalizedVotes(traces)[j] : j \in
        {j \in DOMAIN traces :
            \A k \in DOMAIN traces :
                Count(NormalizedVotes(traces), NormalizedVotes(traces)[k])
                  <= Count(NormalizedVotes(traces), NormalizedVotes(traces)[j])}}
FirstTraceOf(traces, m) ==
    traces[CHOOSE j \in DOMAIN traces :
              /\ NormalizedVotes(traces)[j] = m
              /\ \A k \in 1..(j - 1) : NormalizedVotes(traces)[k] # m]
\* the share of the votes the result reports, as <<votes, voters>>
ReportedShareIs(result, votes, voters) ==
    IF "agreement_score" \in DOMAIN result
    THEN result.agreement_score = Round2(votes, voters)
    ELSE voters > 1 => result.confidence[1] * voters = votes * result.confidence[2]

\* C26: the vote counts answers that differ only in case or in surrounding
\* blanks as one answer, and the answer (and the reasoning, where one is
\* returned) is the verbatim text of the first trace, in sample order, whose
\* normalized answer is the majority answer.
C26_VoteOnNormalizedAnswers ==
    (scPc = "done" /\ ~Failed(scResult)) =>
        LET traces == VotedTraces(scResult)
        IN \E m \in MajorityAnswers(traces) :
              /\ scResult.answer = FirstTraceOf(traces, m).answer
              /\ "reasoning" \in DOMAIN scResult =>
                    scResult.reasoning = FirstTraceOf(traces, m).reasoning
              /\ ReportedShareIs(scResult, Count(NormalizedVotes(traces), m),
                                 Len(traces))

\* the same for the orchestrator's _aggregate_answers alone
C26_OrchestratorVotesOnNormalized ==
    scImpl = "orchestrator" => C26_VoteOnNormalizedAnswers
C26_OrchestratorWitness ==
    /\ scPc = "done" /\ scImpl = "orchestrator"
    /\ scAnswers = <<"Lyon", "Paris ", "paris">>
    /\ scResult.answer = "Paris "

----------------------------------------------------------------------------
(* QueryPlanner (services/query_planner.py) driven by                      *)
(* LLMOrchestrator.process_query.  A text is the sequence of its words,    *)
(* which single spaces separate; "?" is a word of its own.                 *)

MaxQueries == 2
MAX_HOPS == 3

Questions ==
    { <<"Compare", "plans", "and", "budgets">>,
      <<"which", "teams", "do", "compare", "plans", "and", "budgets">>,
      <<"what", "are", "the", "dates", "and", "emails", "of", "acme">>,
      <<"compare", "plans">>,
      <<"plans">> }
HopLimits == {1, 2, MAX_HOPS}

LowerWords(words) == [p \in DOMAIN words |-> Lower(words[p])]

\* "phrase in text" for a phrase of whole words: a single word is looked for
\* inside the words of the text
PhraseIn(phrase, words) ==
    IF Len(phrase) = 1
    THEN \E p \in DOMAIN words : In(phrase[1], words[p])
    ELSE \E p \in 1..(Len(words) - Len(phrase) + 1) :
            \A m \in DOMAIN phrase : words[p + m - 1] = phrase[m]

complex_indicators ==
    { <<"which">>, <<"compare">>, <<"analyze">>, <<"find", "all">>, <<"list", "all">>,
      <<"what", "are", "the">>, <<"how", "many">>, <<"when", "did">>,
      <<"where", "are">>, <<"and">>, <<"or">>, <<"but">>, <<"however">>,
      <<"additionally">> }
Conjunctions == {"and", "or", "but", "however", "additionally"}

AnalyzeQueryComplexity(question) ==
    LET question_lower == LowerWords(question)
        complex_count ==
            Cardinality({i \in complex_indicators : PhraseIn(i, question_lower)})
        question_marks == Cardinality({p \in DOMAIN question : question[p] = "?"})
        conjunctions ==
            Cardinality({p \in DOMAIN question : question_lower[p] \in Conjunctions})
    IN IF complex_count >= 2 \/ question_marks > 1 \/ conjunctions >= 2
       THEN "complex"
       ELSE IF complex_count >= 1 \/ conjunctions >= 1 THEN "medium" ELSE "simple"

\* \w+ : a word of letters
IsWord(w) == w # "?"

\* re.search of the three templates on the lower-cased words: every way a
\* template fits, as the places of its fixed words; the regex engine takes the
\* leftmost start and makes each lazy group as short as a match allows
WhichFits(w) ==
    {f \in (DOMAIN w) \X (DOMAIN w) :
        /\ w[f[1]] = "which"
        /\ f[1] + 2 <= Len(w) /\ IsWord(w[f[1] + 1]) /\ w[f[1] + 2] = "do"
        /\ f[2] >= f[1] + 4 /\ w[f[2]] = "and" /\ f[2] < Len(w)}
WhatFits(w) ==
    {f \in (DOMAIN w) \X (DOMAIN w) \X (DOMAIN w) :
        /\ f[1] + 2 <= Len(w)
        /\ w[f[1]] = "what" /\ w[f[1] + 1] = "are" /\ w[f[1] + 2] = "the"
        /\ f[2] >= f[1] + 4 /\ w[f[2]] = "and"
        /\ f[3] >= f[2] + 2 /\ w[f[3]] = "of" /\ f[3] < Len(w)}
CompareFits(w) ==
    {f \in (DOMAIN w) \X (DOMAIN w) :
        /\ w[f[1]] = "compare"
        /\ f[2] >= f[1] + 2 /\ w[f[2]] = "and" /\ f[2] < Len(w)}

\* the fit the engine reports: least in the order of the places
RECURSIVE Before(_, _, _)
Before(f, g, p) ==
    IF p > Len(f) THEN TRUE
    ELSE f[p] < g[p] \/ (f[p] = g[p] /\ Before(f, g, p + 1))
FirstFit(fits) == CHOOSE f \in fits : \A g \in fits : Before(f, g, 1)

Subquery(query, type, dependencies) ==
    [query |-> query, type |-> type, dependencies |-> dependencies]

\* QueryPlanner._decompose_query
DecomposeQuery(question) ==
    LET w == LowerWords(question)
    IN IF WhichFits(w) # {}
       THEN LET f == FirstFit(WhichFits(w))
                entity_type == w[f[1] + 1]
                condition1 == SubSeq(w, f[1] + 3, f[2] - 1)
                condition2 == SubSeq(w, f[2] + 1, Len(w))
            IN << Subquery(<<"Find", "all", entity_type, "that">> \o condition1,
                           "filter", <<>>),
                  Subquery(<<"Check", "which", "of", "these", entity_type, "also">>
                               \o condition2, "filter", <<0>>) >>
       ELSE IF WhatFits(w) # {}
       THEN LET f == FirstFit(WhatFits(w))
                attribute1 == SubSeq(w, f[1] + 3, f[2] - 1)
                attribute2 == SubSeq(w, f[2] + 1, f[3] - 1)
                entity == SubSeq(w, f[3] + 1, Len(w))
            IN << Subquery(<<"Find", "information", "about">> \o entity,
                           "retrieve", <<>>),
                  Subquery(<<"Extract">> \o attribute1 \o <<"and">> \o attribute2
                               \o <<"from", "the", "information">>, "extract", <<0>>) >>
       ELSE IF CompareFits(w) # {}
       THEN LET f == FirstFit(CompareFits(w))
                entity1 == SubSeq(w, f[1] + 1, f[2] - 1)
                entity2 == SubSeq(w, f[2] + 1, Len(w))
            IN << Subquery(<<"Find", "information", "about">> \o entity1,
                           "retrieve", <<>>),
                  Subquery(<<"Find", "information", "about">> \o entity2,
                           "retrieve", <<>>),
                  Subquery(<<"Compare", "the", "information", "about">> \o entity1
                               \o <<"and">> \o entity2, "compare", <<0, 1>>) >>
       ELSE << Subquery(question, "direct", <<>>) >>

HopPlan(hop, subquery, type, dependencies) ==
    [hop |-> hop, subquery |-> subquery, type |-> type, dependencies |-> dependencies]

\* QueryPlanner.plan_query
PlanQuery(question, max_hops) ==
    IF AnalyzeQueryComplexity(question) = "simple" \/ max_hops = 1
    THEN << HopPlan(1, question, "direct", <<>>) >>
    ELSE LET subqueries == DecomposeQuery(question)
         IN [i \in DOMAIN subqueries |->
                HopPlan(i, subqueries[i].query, subqueries[i].type,
                        subqueries[i].dependencies)]

\* the texts of a tenant's chunks: the stored one, one that holds a date and
\* one that holds an e-mail address
DatedText(tenant_id) == "due 1/2/2024 of " \o tenant_id
MailedText(tenant_id) == "write bob@acme.com of " \o tenant_id
HopTexts(tenant_id) ==
    TextsOf(tenant_id) \cup {DatedText(tenant_id), MailedText(tenant_id)}

\* RetrievalService.retrieve_documents as the hops see it: chunks of the
\* tenant, or none (also what it returns when it fails)
DocWith(tenant_id, chunk_id, text) ==
    [chunk_id |-> chunk_id, doc_id |-> "d1", text |-> text, score |-> 100]
Doc(tenant_id, chunk_id) ==
    DocWith(tenant_id, chunk_id, CHOOSE x \in TextsOf(tenant_id) : TRUE)
RetrievalOutcomes(tenant_id) ==
    { <<>>,
      <<Doc(tenant_id, "c1"), Doc(tenant_id, "c2")>>,
      <<DocWith(tenant_id, "c1", DatedText(tenant_id)),
        DocWith(tenant_id, "c2", MailedText(tenant_id))>> }
\* re.findall of the date pattern and of the e-mail pattern on a text
DatesIn(text) ==
    IF \E t \in Tenants : text = DatedText(t) THEN <<"1/2/2024">> ELSE <<>>
EmailsIn(text) ==
    IF \E t \in Tenants : text = MailedText(t) THEN <<"bob@acme.com">> ELSE <<>>

\* hash(subquery): equal texts hash alike, and the texts of the model are
\* taken to hash apart
Hash(subquery) == subquery
CacheKey(hop_number, subquery) == [hop |-> hop_number, hash |-> Hash(subquery)]

CacheHit(cache, key) == \E p \in DOMAIN cache : cache[p].key = key
CacheGet(cache, key) == cache[CHOOSE p \in DOMAIN cache : cache[p].key = key]
CachePut(cache, key, value, by) ==
    LET entry == [key |-> key, value |-> value, cached_by |-> by]
    IN IF CacheHit(cache, key)
       THEN [p \in DOMAIN cache |-> IF cache[p].key = key THEN entry ELSE cache[p]]
       ELSE Append(cache, entry)

HopResult(hop_type, subquery, result, sources) ==
    [hop_type |-> hop_type, subquery |-> subquery, result |-> result,
     sources |-> sources, entities |-> <<>>]

\* _matches_filter_criteria: some keyword of the filter query is in the text
MatchesFilterCriteria(result, filter_query) ==
    \E p \in DOMAIN filter_query : In(Lower(filter_query[p]), Lower(result.text))

\* _compare_results
CompareResults(results) ==
    IF Len(results) < 2
    THEN [comparison |-> "insufficient_data",
          details |-> "Need at least 2 results to compare"]
    ELSE [comparison |-> "basic_comparison", count |-> Len(results),
          details |-> "Found " \o ToString(Len(results)) \o " results for comparison"]

None == [none |-> TRUE]

\* _extract_specific_info: the first date of the text when the query holds
\* "date", else its first e-mail address when the query holds "email", else
\* None
ExtractSpecificInfo(result, extraction_query) ==
    LET query_lower == LowerWords(extraction_query)
    IN IF PhraseIn(<<"date">>, query_lower) /\ DatesIn(result.text) # <<>>
       THEN [type |-> "date", value |-> DatesIn(result.text)[1], source |-> result]
       ELSE IF PhraseIn(<<"email">>, query_lower) /\ EmailsIn(result.text) # <<>>
       THEN [type |-> "email", value |-> EmailsIn(result.text)[1], source |-> result]
       ELSE None

\* extracted_info of _execute_extract_hop: what was extracted, in order
RECURSIVE ExtractedInfo(_, _)
ExtractedInfo(previous_results, subquery) ==
    IF previous_results = <<>> THEN <<>>
    ELSE LET extracted == ExtractSpecificInfo(Head(previous_results), subquery)
         IN (IF extracted = None THEN <<>> ELSE <<extracted>>)
                \o ExtractedInfo(Tail(previous_results), subquery)

\* _execute_filter_hop, _execute_extract_hop, _execute_compare_hop: the hops
\* that only read the context
LocalHop(hop_type, subquery, previous_results) ==
    CASE hop_type = "filter" ->
           LET filtered_results ==
                   SelectSeq(previous_results,
                             LAMBDA r : MatchesFilterCriteria(r, subquery))
           IN HopResult("filter", subquery, filtered_results, filtered_results)
      [] hop_type = "extract" ->
           HopResult("extract", subquery, ExtractedInfo(previous_results, subquery),
                     previous_results)
      [] hop_type = "compare" ->
           HopResult("compare", subquery, CompareResults(previous_results),
                     previous_results)

Retrieves(hop_type) == hop_type \notin {"filter", "extract", "compare"}

\* the result execute_hop returns from its except branch
HopError(hop_plan, error) ==
    [hop |-> hop_plan.hop, subquery |-> hop_plan.subquery, result |-> None,
     error |-> error, sources |-> <<>>]
\* what a filter, extract or compare hop raises when the hop before it failed
\* and left None in context["previous_results"]
NoneTypeError(hop_type) ==
    IF hop_type = "compare" THEN "object of type 'NoneType' has no len()"
    ELSE "'NoneType' object is not iterable"
RetrievalError == "retrieval failed"

\* mutant of NextHop: a loop that walks the plan backwards
NextHopLastFirst(state) ==
    CHOOSE k \in DOMAIN state :
        state[k] = "waiting" /\ \A m \in DOMAIN state : m > k => state[m] # "waiting"
\* the for loop of _process_multi_hop_query: the hops in plan order, one at
\* a time
NextHop(state) ==
    CHOOSE k \in DOMAIN state :
        state[k] = "waiting" /\ \A m \in 1..(k - 1) : state[m] # "waiting"
CanStartHop ==
    /\ orPc = "multi"
    /\ \E k \in DOMAIN orHopState : orHopState[k] = "waiting"
    /\ \A k \in DOMAIN orHopState : orHopState[k] # "running"

\* options["self_consistency_samples"]: an integer, or a value of another type
Samples(n) == [is_int |-> TRUE, value |-> n]
NotAnInteger == [is_int |-> FALSE, value |-> 0]
SampleOptions == {Samples(1), Samples(2), NotAnInteger}

\* llm_provider.generate_response: the response, or an exception
LlmRaises == "raises"
LlmOutcomes == {"Paris", LlmRaises}

NoInformation == "I couldn't find relevant information to answer your question."
ProcessingError ==
    "I apologize, but I encountered an error processing your query. Please try again."

\* the number of words of an answer of the model
WordCount(answer) == IF answer = "" THEN 0 ELSE 1

RECURSIVE SumScores(_)
SumScores(sources) ==
    IF sources = <<>> THEN 0 ELSE Head(sources).score + SumScores(Tail(sources))

\* _calculate_confidence in thousandths, the scores being hundredths:
\* min(avg_source_score * 0.7 + min(words / 50, 1.0) * 0.3, 1.0)
CalculateConfidence(answer, sources) ==
    IF answer = "" \/ sources = <<>> THEN 0
    ELSE Min(7 * (SumScores(sources) \div Len(sources)) + Min(6 * WordCount(answer), 300),
             1000)

\* _generate_answer: the answer and its confidence; the except branch gives
\* the apology with confidence 0.0
GeneratedAnswer(outcome, sources) ==
    IF outcome = LlmRaises THEN [answer |-> Apology, confidence |-> 0]
    ELSE [answer |-> outcome, confidence |-> CalculateConfidence(outcome, sources)]

\* a fraction <<numerator, denominator>> in thousandths
Thousandths(fraction) == (1000 * fraction[1]) \div fraction[2]

\* how many times the generation calls the LLM
LlmCallsFor(samples) == IF samples.value > 1 THEN samples.value ELSE 1

\* _process_with_self_consistency when samples > 1, _process_single_generation
\* otherwise: the returned dict (reasoning_traces and verification are not
\* carried; verify_claims returns a dict when it fails).  outcomes: what the
\* LLM does at each call.
Generation(sources, hop_count, samples, outcomes) ==
    IF samples.value > 1
    THEN LET answers == [i \in 1..samples.value |->
                            GeneratedAnswer(outcomes[i], sources).answer]
             aggregate == AggregateAnswers(answers)
         IN [answer |-> aggregate[1], sources |-> FirstN(sources, 5),
             confidence |-> Thousandths(aggregate[2]), hop_count |-> hop_count]
    ELSE LET answer_result == GeneratedAnswer(outcomes[1], sources)
         IN [answer |-> answer_result.answer, sources |-> FirstN(sources, 5),
             confidence |-> answer_result.confidence, hop_count |-> hop_count]

\* mutant of ErrorResponse: the error response that counts one hop
ErrorResponseOneHop(error) ==
    [answer |-> ProcessingError, sources |-> <<>>, confidence |-> 0, hop_count |-> 1,
     error |-> error]

\* the except branch of process_query
ErrorResponse(error) ==
    [answer |-> ProcessingError, sources |-> <<>>, confidence |-> 0, hop_count |-> 0,
     error |-> error]

\* self_consistency_samples > 1 on a value that is not a number raises
SamplesTypeError == "'>' not supported between instances of 'str' and 'int'"

\* what the path returns once its sources are known
PathResult(sources, hop_count, samples, outcomes) ==
    IF ~samples.is_int THEN ErrorResponse(SamplesTypeError)
    ELSE Generation(sources, hop_count, samples, outcomes)
CallsMade(samples) == IF ~samples.is_int THEN 0 ELSE LlmCallsFor(samples)
OutcomesFor(samples) == [1..Max(CallsMade(samples), 1) -> LlmOutcomes]

NoQuery == [id |-> 0, question |-> <<>>, tenant_id |-> "", max_hops |-> 0]
NoContext == [previous_results |-> <<>>]
NoSamples == Samples(0)
genVars == <<orSources, orSamples, orAnswers>>

\* a loop that gives up collecting at the first hop that failed
RECURSIVE AllSourcesUntilFailure(_)
AllSourcesUntilFailure(hop_results) ==
    IF hop_results = <<>> \/ "error" \in DOMAIN Head(hop_results) THEN <<>>
    ELSE Head(hop_results).sources \o AllSourcesUntilFailure(Tail(hop_results))
\* all_sources of _process_multi_hop_query
RECURSIVE AllSources(_)
AllSources(hop_results) ==
    IF hop_results = <<>> THEN <<>>
    ELSE Head(hop_results).sources \o AllSources(Tail(hop_results))

InitOR ==
    /\ hop_cache = <<>>
    /\ orLlmCalls = 0
    /\ orPc = "idle"
    /\ orQuery = NoQuery
    /\ orPlan = <<>>
    /\ orHopState = <<>>
    /\ orHopResults = <<>>
    /\ orHopOrigin = <<>>
    /\ orContext = NoContext
    /\ orResult = <<>>
    /\ orServed = 0
    /\ orSources = <<>>
    /\ orSamples = NoSamples
    /\ orAnswers = <<>>

\* process_query up to the choice between the single-hop and the multi-hop path
ProcessQuery(question, tenant_id, max_hops) ==
    LET execution_plan == PlanQuery(question, max_hops)
    IN /\ orPc = "idle"
       /\ orServed < MaxQueries
       /\ orQuery' = [id |-> orServed + 1, question |-> question,
                      tenant_id |-> tenant_id, max_hops |-> max_hops]
       /\ orLlmCalls' = 0
       /\ orPlan' = execution_plan
       /\ orHopState' = [k \in DOMAIN execution_plan |-> "waiting"]
       /\ orPc' = IF Len(execution_plan) = 1 THEN "single" ELSE "multi"
       /\ orHopResults' = <<>>
       /\ orHopOrigin' = <<>>
       /\ orContext' = NoContext
       /\ orResult' = <<>>
       /\ UNCHANGED <<hop_cache, orServed>>
       /\ UNCHANGED genVars
       /\ UNCHANGED othersOR

\* the call returns: its locals are gone
Return(result) ==
    /\ orResult' = result
    /\ orServed' = orServed + 1
    /\ orPc' = "idle"
    /\ orQuery' = NoQuery
    /\ orPlan' = <<>>
    /\ orHopState' = <<>>
    /\ orHopResults' = <<>>
    /\ orHopOrigin' = <<>>
    /\ orContext' = NoContext
    /\ orSources' = <<>>
    /\ orSamples' = NoSamples
    /\ orAnswers' = <<>>

\* the path has its sources and reads self_consistency_samples (an input of
\* the call, which the model draws here): "> 1" on a value that is not a
\* number raises; otherwise the generation runs up to its first LLM call
StartGeneration(sources, self_consistency_samples) ==
    IF ~self_consistency_samples.is_int
    THEN /\ Return(ErrorResponse(SamplesTypeError))
         /\ UNCHANGED orLlmCalls
    ELSE /\ orPc' = "generating"
         /\ orSources' = sources
         /\ orSamples' = self_consistency_samples
         /\ orAnswers' = <<>>
         /\ UNCHANGED <<orQuery, orPlan, orHopState, orHopResults, orHopOrigin,
                        orContext, orResult, orServed, orLlmCalls>>

\* _process_single_hop_query from the return of its await of
\* retrieve_documents: no hop and no cache; the canned answer when nothing was
\* retrieved, the answer generation otherwise
ProcessSingleHopQuery(retrieved_docs, self_consistency_samples) ==
    /\ orPc = "single"
    /\ IF retrieved_docs = <<>>
       THEN /\ Return([answer |-> NoInformation, sources |-> <<>>, confidence |-> 0,
                       hop_count |-> 1])
            /\ UNCHANGED orLlmCalls
       ELSE StartGeneration(retrieved_docs, self_consistency_samples)
    /\ UNCHANGED hop_cache
    /\ UNCHANGED othersOR

\* an awaited llm_provider.generate_response returns or raises: one call of
\* _process_single_generation, or one of the loop of
\* _process_with_self_consistency; the last one is followed by the
\* aggregation and the return of the call ("len(hop_results) if hop_results
\* else 1")
LlmCallReturns(outcome) ==
    /\ orPc = "generating"
    /\ orLlmCalls' = orLlmCalls + 1
    /\ LET answers == Append(orAnswers, outcome)
       IN IF Len(answers) < LlmCallsFor(orSamples)
          THEN /\ orAnswers' = answers
               /\ UNCHANGED <<orPc, orQuery, orPlan, orHopState, orHopResults,
                              orHopOrigin, orContext, orResult, orServed, orSources,
                              orSamples>>
          ELSE Return(Generation(orSources,
                                 IF orHopResults = <<>> THEN 1 ELSE Len(orHopResults),
                                 orSamples, answers))
    /\ UNCHANGED hop_cache
    /\ UNCHANGED othersOR

\* QueryPlanner.clear_cache, whenever another task calls it
ClearCache ==
    /\ orPc # "off"
    /\ hop_cache' = <<>>
    /\ UNCHANGED <<orPc, orQuery, orPlan, orHopState, orHopResults, orHopOrigin,
                   orContext, orResult, orServed, orLlmCalls>>
    /\ UNCHANGED genVars
    /\ UNCHANGED othersOR

\* execute_hop when the key is in hop_cache
ExecuteHopFromCache ==
    /\ CanStartHop
    /\ LET k == NextHop(orHopState)
           key == CacheKey(orPlan[k].hop, orPlan[k].subquery)
       IN /\ CacheHit(hop_cache, key)
          /\ orHopState' = [orHopState EXCEPT ![k] = "done"]
          /\ orHopResults' = Append(orHopResults, CacheGet(hop_cache, key).value)
          /\ orHopOrigin' = Append(orHopOrigin, CacheGet(hop_cache, key).cached_by)
          /\ orContext' = [previous_results |-> CacheGet(hop_cache, key).value.result]
    /\ UNCHANGED <<hop_cache, orPc, orQuery, orPlan, orResult, orServed, orLlmCalls>>
    /\ UNCHANGED genVars
    /\ UNCHANGED othersOR

\* execute_hop of a filter, extract or compare hop that is not cached; on
\* None it raises, and the except branch returns without caching
ExecuteLocalHop ==
    /\ CanStartHop
    /\ LET k == NextHop(orHopState)
           key == CacheKey(orPlan[k].hop, orPlan[k].subquery)
           result == IF orContext.previous_results = None
                     THEN HopError(orPlan[k], NoneTypeError(orPlan[k].type))
                     ELSE LocalHop(orPlan[k].type, orPlan[k].subquery,
                                   orContext.previous_results)
       IN /\ ~CacheHit(hop_cache, key)
          /\ ~Retrieves(orPlan[k].type)
          /\ hop_cache' = IF orContext.previous_results = None THEN hop_cache
                          ELSE CachePut(hop_cache, key, result, orQuery.id)
          /\ orHopState' = [orHopState EXCEPT ![k] = "done"]
          /\ orHopResults' = Append(orHopResults, result)
          /\ orHopOrigin' = Append(orHopOrigin, orQuery.id)
          /\ orContext' = [previous_results |-> result.result]
    /\ UNCHANGED <<orPc, orQuery, orPlan, orResult, orServed, orLlmCalls>>
    /\ UNCHANGED genVars
    /\ UNCHANGED othersOR

\* execute_hop of a direct or retrieve hop that is not cached, up to its
\* await of retrieve_documents
StartRetrievalHop ==
    /\ CanStartHop
    /\ LET k == NextHop(orHopState)
           key == CacheKey(orPlan[k].hop, orPlan[k].subquery)
       IN /\ ~CacheHit(hop_cache, key)
          /\ Retrieves(orPlan[k].type)
          /\ orHopState' = [orHopState EXCEPT ![k] = "running"]
    /\ UNCHANGED <<hop_cache, orPc, orQuery, orPlan, orHopResults, orHopOrigin,
                   orContext, orResult, orServed, orLlmCalls>>
    /\ UNCHANGED genVars
    /\ UNCHANGED othersOR

\* ... and from there: the result is cached and handed to the loop
FinishRetrievalHop(results) ==
    /\ orPc = "multi"
    /\ \E k \in DOMAIN orHopState :
          /\ orHopState[k] = "running"
          /\ LET result == HopResult("direct", orPlan[k].subquery, results, results)
                 key == CacheKey(orPlan[k].hop, orPlan[k].subquery)
             IN /\ hop_cache' = CachePut(hop_cache, key, result, orQuery.id)
                /\ orHopState' = [orHopState EXCEPT ![k] = "done"]
                /\ orHopResults' = Append(orHopResults, result)
                /\ orHopOrigin' = Append(orHopOrigin, orQuery.id)
                /\ orContext' = [previous_results |-> result.result]
    /\ UNCHANGED <<orPc, orQuery, orPlan, orResult, orServed, orLlmCalls>>
    /\ UNCHANGED genVars
    /\ UNCHANGED othersOR

\* ... or retrieve_documents raises: the except branch of execute_hop returns
\* the error result, nothing is cached
FailRetrievalHop ==
    /\ orPc = "multi"
    /\ \E k \in DOMAIN orHopState :
          /\ orHopState[k] = "running"
          /\ orHopState' = [orHopState EXCEPT ![k] = "done"]
          /\ orHopResults' = Append(orHopResults, HopError(orPlan[k], RetrievalError))
          /\ orHopOrigin' = Append(orHopOrigin, orQuery.id)
          /\ orContext' = [previous_results |-> None]
    /\ UNCHANGED <<hop_cache, orPc, orQuery, orPlan, orResult, orServed, orLlmCalls>>
    /\ UNCHANGED genVars
    /\ UNCHANGED othersOR

\* _process_multi_hop_query after the loop: the sources of all hops, then the
\* answer generation
FinishMultiHopQuery(self_consistency_samples) ==
    /\ orPc = "multi"
    /\ \A k \in DOMAIN orHopState : orHopState[k] = "done"
    /\ StartGeneration(AllSources(orHopResults), self_consistency_samples)
    /\ UNCHANGED hop_cache
    /\ UNCHANGED othersOR

NextOR ==
    \/ \E q \in Questions, t \in Tenants, h \in HopLimits : ProcessQuery(q, t, h)
    \/ \E t \in Tenants : \E r \in RetrievalOutcomes(t) : \E n \in SampleOptions :
          t = orQuery.tenant_id /\ ProcessSingleHopQuery(r, n)
    \/ \E o \in LlmOutcomes : LlmCallReturns(o)
    \/ ClearCache
    \/ ExecuteHopFromCache
    \/ ExecuteLocalHop
    \/ StartRetrievalHop
    \/ \E t \in Tenants : \E r \in RetrievalOutcomes(t) :
          t = orQuery.tenant_id /\ FinishRetrievalHop(r)
    \/ FailRetrievalHop
    \/ \E n \in SampleOptions : FinishMultiHopQuery(n)

IdleOR ==
    /\ hop_cache = <<>>
    /\ orLlmCalls = 0
    /\ orPc = "off"
    /\ orQuery = NoQuery
    /\ orPlan = <<>>
    /\ orHopState = <<>>
    /\ orHopResults = <<>>
    /\ orHopOrigin = <<>>
    /\ orContext = NoContext
    /\ orResult = <<>>
    /\ orServed = 0
    /\ orSources = <<>>
    /\ orSamples = NoSamples
    /\ orAnswers = <<>>

----------------------------------------------------------------------------
(* Claims about query planning and hop execution *)

\* C2: a hop result handed to the query being processed was computed while
\* processing that query, and its sources are chunks of that query's tenant.
C2_HopCacheScopedToQuery ==
    orPc = "multi" =>
        \A j \in DOMAIN orHopResults :
            /\ orHopOrigin[j] = orQuery.id
            /\ \A p \in DOMAIN orHopResults[j].sources :
                  orHopResults[j].sources[p].text \in HopTexts(orQuery.tenant_id)

MatchesCompareTemplate(question) == CompareFits(LowerWords(question)) # {}
MatchesEarlierTemplate(question) ==
    WhichFits(LowerWords(question)) # {} \/ WhatFits(LowerWords(question)) # {}

ComparePlanAndOrder ==
    /\ Len(orPlan) = 3
    /\ orPlan[1].type = "retrieve" /\ orPlan[2].type = "retrieve"
    /\ orPlan[3].type = "compare"
    /\ orPlan[1].subquery # orPlan[3].subquery
    /\ orPlan[2].subquery # orPlan[3].subquery
    /\ orPlan[3].dependencies = <<0, 1>>
    /\ orPc = "multi"
    /\ orHopState[3] # "waiting" => orHopState[1] = "done" /\ orHopState[2] = "done"
    /\ orHopState[2] # "waiting" => orHopState[1] = "done"

\* C4 as stated: whenever the question being processed matches the compare
\* template, the plan is the two lookups and the compare that depends on both,
\* and the compare hop starts only after both lookups are done.
C4_CompareTemplate ==
    (orPc \in {"single", "multi"} /\ MatchesCompareTemplate(orQuery.question))
        => ComparePlanAndOrder

\* C4, amended: the same, for a question that matches the compare template
\* and neither of the two templates tried before it, planned with a hop
\* limit other than 1.
C4_CompareTemplateWhenReached ==
    (/\ orPc \in {"single", "multi"}
     /\ MatchesCompareTemplate(orQuery.question)
     /\ ~MatchesEarlierTemplate(orQuery.question)
     /\ orQuery.max_hops # 1)
        => /\ ComparePlanAndOrder
           /\ orQuery.question = <<"Compare", "plans", "and", "budgets">> =>
                 /\ orPlan[1].subquery = <<"Find", "information", "about", "plans">>
                 /\ orPlan[2].subquery = <<"Find", "information", "about", "budgets">>

C4_Witness ==
    /\ orPc = "multi"
    /\ orQuery.question = <<"Compare", "plans", "and", "budgets">>
    /\ orQuery.max_hops # 1
    /\ Len(orPlan) = 3
    /\ orHopState[3] = "done"

\* C15: when retrieval returns no passage, the orchestrator still calls the
\* LLM and returns the answer it generated.
Returned == orPc = "idle" /\ DOMAIN orResult # {}
C15_ZeroContextStillGenerates ==
    (Returned /\ "error" \notin DOMAIN orResult /\ orResult.sources = <<>>) =>
        /\ orLlmCalls >= 1
        /\ orResult.answer # NoInformation

\* C16, LLMOrchestrator.process_query: every call returns, and what it returns is a result
\* (answer, sources, confidence, hop count) or the structured error response:
\* an error message with confidence 0.0, no sources and hop count 0.
InFlight == orPc \in {"single", "multi", "generating"}
FinalResult(r) ==
    /\ {"answer", "sources", "confidence", "hop_count"} \subseteq DOMAIN r
    /\ "error" \in DOMAIN r =>
          r.error # "" /\ r.confidence = 0 /\ r.sources = <<>> /\ r.hop_count = 0
C16_QueryReachesFinalState == InFlight ~> (Returned /\ FinalResult(orResult))

\* a call has returned the structured error response
C16_Witness == Returned /\ "error" \in DOMAIN orResult /\ orServed >= 1

\* C18: when a hop starts, the context it receives holds the results of every
\* retrieval hop executed before it, not only those of the last one.
HopAboutToStart(k) == CanStartHop /\ k = NextHop(orHopState)
C18_ContextMergesHops ==
    \A k \in DOMAIN orHopState :
        (HopAboutToStart(k) /\ k > 1 /\ \A j \in 1..(k - 1) : Retrieves(orPlan[j].type)) =>
            \A j \in 1..(k - 1) :
                Range(orHopResults[j].result) \subseteq Range(orContext.previous_results)

\* C29: the plan of a call has at most max_hops hops, whatever the question
\* and max_hops >= 1, so that no more than max_hops hops are executed and
\* reported as hop_count.
C29_PlanWithinMaxHops ==
    orPc \in {"single", "multi"} =>
        /\ orQuery.max_hops >= 1
        /\ Len(orPlan) <= orQuery.max_hops
        /\ Len(orHopResults) <= orQuery.max_hops

\* the plan is within the planner's own limit of three hops
C29_PlanWithinThreeHops ==
    orPc \in {"single", "multi"} => Len(orPlan) <= MAX_HOPS

HopFailed(hop_result) == "error" \in DOMAIN hop_result
SomeHopFailed == \E k \in DOMAIN orHopResults : HopFailed(orHopResults[k])
RECURSIVE SourcesOfSucceeded(_)
SourcesOfSucceeded(hop_results) ==
    IF hop_results = <<>> THEN <<>>
    ELSE (IF HopFailed(Head(hop_results)) THEN <<>> ELSE Head(hop_results).sources)
         \o SourcesOfSucceeded(Tail(hop_results))

\* C22: in a plan of several hops, a hop's failure is not fatal: the failed
\* hop leaves an error result, the hops after it are still executed in plan
\* order, and the query ends with the answer generated from the sources of
\* the hops that succeeded.
C22_HopFailureNotFatal ==
    [][(orPc \in {"multi", "generating"} /\ SomeHopFailed) =>
         /\ orPc' \in {"multi", "generating", "idle"}
         /\ orPc' = "multi" =>
               /\ orPlan' = orPlan
               /\ Len(orHopResults') \in {Len(orHopResults), Len(orHopResults) + 1}
               /\ \A k \in DOMAIN orHopResults :
                     orHopResults'[k] = orHopResults[k]
               /\ \A k \in DOMAIN orHopResults' :
                     orHopResults'[k].subquery = orPlan[k].subquery
         /\ orPc' = "generating" =>
               /\ Len(orHopResults) = Len(orPlan)
               /\ orHopResults' = orHopResults
               /\ orSources' = SourcesOfSucceeded(orHopResults)
         /\ orPc' = "idle" =>
               /\ Len(orHopResults) = Len(orPlan)
               /\ \E n \in SampleOptions : \E o \in OutcomesFor(n) :
                     orResult' = PathResult(SourcesOfSucceeded(orHopResults),
                                            Len(orPlan), n, o)]_vars
\* every hop was executed, the first one failed, a later one found chunks
C22_Witness ==
    /\ orPc = "multi"
    /\ Len(orHopResults) = Len(orPlan)
    /\ HopFailed(orHopResults[1])
    /\ \E k \in DOMAIN orHopResults :
          ~HopFailed(orHopResults[k]) /\ orHopResults[k].sources # <<>>

----------------------------------------------------------------------------
(* VerificationService: verify_claims *)

MaxSources == 2

\* An answer is its sentences in order, as re.split(r'[.!?]+') gives them, and
\* a sentence is its words; the empty answer has no sentence.  The words carry
\* no e-mail address and no URL.
VerifiedAnswers ==
    { <<>>,
      << <<"Hello", "there">> >>,
      << <<"It", "is">> >>,
      << <<"The", "plan", "is", "valid">> >>,
      << <<"I", "think", "the", "plan", "is", "valid">> >>,
      << <<"Please", "note", "the", "plan", "is", "valid">> >>,
      << <<"Acme", "has", "3", "offices">> >>,
      << <<"The", "plan", "is", "valid">>, <<"Acme", "has", "3", "offices">> >>,
      << <<"Hello", "there">>, <<"Acme", "has", "3", "offices">> >> }

Source(text, entities) == [text |-> text, metadata |-> [entities |-> entities]]
SourceDocs ==
    { Source(<<"the", "plan", "is", "valid", "until", "march">>, {}),
      Source(<<"budget", "report">>, {"Acme", "3"}),
      Source(<<"budget", "report", "of", "Acme">>, {"Acme"}) }

\* [A-Z][a-z]+ on the words the model carries
CapitalizedWords == {"The", "Acme", "Hello", "Please", "It", "Compare", "Paris", "Lyon"}
\* \d+
NumberWords == {ToString(k) : k \in 0..9}

factual_words ==
    {"is", "are", "was", "were", "has", "have", "had", "contains", "includes",
     "shows", "indicates", "suggests", "expires", "expired", "valid", "invalid",
     "domain", "email", "date", "time", "period"}
factual_phrases == {<<"according", "to">>, <<"based", "on">>, <<"the", "data", "shows">>}
\* "phrase in sentence_lower": the words of the answers hold these phrases
\* only as whole words
conversational_phrases ==
    {<<"i", "apologize">>, <<"i'm", "sorry">>, <<"i", "don't", "know">>, <<"i", "can't">>,
     <<"please">>, <<"thank", "you">>, <<"you're", "welcome">>}
conversational_openers ==
    {<<"i", "think">>, <<"i", "believe">>, <<"i", "feel">>, <<"i", "guess">>}

IsFactualClaim(sentence) ==
    LET has_indicators ==
            \/ \E p \in DOMAIN sentence : Lower(sentence[p]) \in factual_words
            \/ SearchAny(factual_phrases, sentence)
            \/ \E p \in DOMAIN sentence : sentence[p] \in NumberWords
        is_conversational == SearchAny(conversational_phrases, sentence)
    IN has_indicators /\ ~is_conversational /\ Len(sentence) >= 3

StartsWith(sentence, phrase) ==
    /\ Len(sentence) >= Len(phrase)
    /\ \A m \in DOMAIN phrase : Lower(sentence[m]) = phrase[m]

\* _extract_claims: the sentences kept, in order
ExtractClaims(answer) ==
    SelectSeq(answer,
        LAMBDA sentence :
            /\ sentence # <<>>
            /\ ~\E phrase \in conversational_openers : StartsWith(sentence, phrase)
            /\ IsFactualClaim(sentence))

\* set(re.findall(r'\b\w+\b', text.lower()))
Terms(words) == {Lower(words[p]) : p \in DOMAIN words}

\* overlap_ratio >= 0.3
HasTextOverlap(claim, source_text) ==
    /\ Terms(claim) # {}
    /\ 10 * Cardinality(Terms(claim) \cap Terms(source_text)) >= 3 * Cardinality(Terms(claim))

\* _calculate_semantic_similarity as the fraction <<intersection, union>>
SemanticSimilarity(claim, source_text) ==
    IF Terms(claim) = {} \/ Terms(source_text) = {} THEN <<0, 1>>
    ELSE << Cardinality(Terms(claim) \cap Terms(source_text)),
            Cardinality(Terms(claim) \cup Terms(source_text)) >>

\* mutant of AtLeastThreshold: a similarity threshold of 0.1
AtLeastTenth(fraction) == 10 * fraction[1] >= fraction[2]

\* fraction >= self.similarity_threshold (0.7)
AtLeastThreshold(fraction) == 10 * fraction[1] >= 7 * fraction[2]


\* _extract_entities: the first five capitalized words and the first three numbers
ExtractEntities(claim) ==
    Range(FirstN(SelectSeq(claim, LAMBDA w : w \in CapitalizedWords), 5))
        \cup Range(FirstN(SelectSeq(claim, LAMBDA w : w \in NumberWords), 3))

\* The evidence of one source's text, if any (the matched text is not carried)
RECURSIVE TextEvidence(_, _)
TextEvidence(claim, sources) ==
    IF sources = <<>> THEN <<>>
    ELSE LET source == Head(sources)
             similarity == SemanticSimilarity(claim, source.text)
             here ==
                 IF HasTextOverlap(claim, source.text)
                 THEN << [source |-> source, type |-> "direct_match",
                          confidence |-> <<1, 1>>] >>
                 ELSE IF AtLeastThreshold(similarity)
                 THEN << [source |-> source, type |-> "semantic_match",
                          confidence |-> similarity] >>
                 ELSE <<>>
         IN here \o TextEvidence(claim, Tail(sources))

\* _check_entity_matches
RECURSIVE EntityEvidence(_, _)
EntityEvidence(claim, sources) ==
    IF sources = <<>> THEN <<>>
    ELSE LET source == Head(sources)
             claim_entities == ExtractEntities(claim)
             overlap == claim_entities \cap source.metadata.entities
             here ==
                 IF overlap # {}
                 THEN << [source |-> source, type |-> "entity_match",
                          confidence |->
                              <<Cardinality(overlap), Cardinality(claim_entities)>>] >>
                 ELSE <<>>
         IN here \o EntityEvidence(claim, Tail(sources))

\* _verify_single_claim: is_verified and the evidence
VerifySingleClaim(claim, sources) ==
    LET evidence == TextEvidence(claim, sources) \o EntityEvidence(claim, sources)
    IN [is_verified |->
            \E e \in DOMAIN evidence : AtLeastThreshold(evidence[e].confidence),
        evidence |-> evidence]

\* the loop of verify_claims over the claims
RECURSIVE VerifyLoop(_, _, _)
VerifyLoop(claims, sources, lists) ==
    IF claims = <<>> THEN lists
    ELSE LET one == VerifySingleClaim(Head(claims), sources)
         IN VerifyLoop(Tail(claims), sources,
                IF one.is_verified
                THEN [lists EXCEPT !.verified_claims = Append(@, Text(Head(claims))),
                                   !.evidence = @ \o one.evidence]
                ELSE [lists EXCEPT !.unverified_claims = Append(@, Text(Head(claims)))])

\* verify_claims; confidence as the fraction <<numerator, denominator>>
verify_claims(answer, sources) ==
    IF answer = <<>> \/ sources = <<>>
    THEN [verified |-> FALSE, confidence |-> <<0, 1>>, unverified_claims |-> <<>>,
          evidence |-> <<>>]
    ELSE LET claims == ExtractClaims(answer)
             lists == VerifyLoop(claims, sources,
                          [verified_claims |-> <<>>, unverified_claims |-> <<>>,
                           evidence |-> <<>>])
         IN IF claims = <<>>
            THEN [verified |-> TRUE, confidence |-> <<1, 1>>,
                  unverified_claims |-> <<>>, evidence |-> <<>>]
            ELSE [verified |-> lists.unverified_claims = <<>>,
                  confidence |-> <<Len(lists.verified_claims), Len(claims)>>,
                  verified_claims |-> lists.verified_claims,
                  unverified_claims |-> lists.unverified_claims,
                  evidence |-> lists.evidence,
                  total_claims |-> Len(claims)]

RECURSIVE SeqsUpTo(_, _)
SeqsUpTo(S, n) ==
    IF n = 0 THEN {<<>>}
    ELSE LET shorter == SeqsUpTo(S, n - 1)
         IN shorter \cup {Append(q, x) : q \in shorter, x \in S}

NoResult == [verified |-> FALSE]

InitVF ==
    /\ vfPc = "called"
    /\ vfAnswer \in VerifiedAnswers
    /\ vfSources \in SeqsUpTo(SourceDocs, MaxSources)
    /\ vfResult = NoResult

VerifyClaims ==
    /\ vfPc = "called"
    /\ vfResult' = verify_claims(vfAnswer, vfSources)
    /\ vfPc' = "returned"
    /\ UNCHANGED <<vfAnswer, vfSources>>
    /\ UNCHANGED othersVF

NextVF ==
    \/ VerifyClaims

IdleVF ==
    /\ vfPc = "off"
    /\ vfAnswer = <<>>
    /\ vfSources = <<>>
    /\ vfResult = NoResult

----------------------------------------------------------------------------
(* Claims about the verification service *)

IsZero(fraction) == fraction[1] = 0
IsOne(fraction) == fraction[1] = fraction[2]

\* C12: with an empty list of sources, verify_claims returns verified = false
\* (or confidence 0) when the answer holds at least one factual claim, and
\* verified = true with confidence 1.0 when it holds none (checked on the
\* answers that are not empty).
C12_EmptyEvidence ==
    (vfPc = "returned" /\ vfSources = <<>> /\ vfAnswer # <<>>) =>
        IF ExtractClaims(vfAnswer) # <<>>
        THEN ~vfResult.verified \/ IsZero(vfResult.confidence)
        ELSE vfResult.verified /\ IsOne(vfResult.confidence)

\* C13: in every result of verify_claims, verified holds exactly when no claim
\* is unverified, confidence is the number of verified claims over the number
\* of extracted claims (1.0 when none was extracted), and the verified and the
\* unverified claims are together the extracted claims, each in one list only.
VerifiedClaims == Get(vfResult, "verified_claims", <<>>)
ExtractedTexts == {Text(claim) : claim \in Range(ExtractClaims(vfAnswer))}
C13_ResultConsistency ==
    vfPc = "returned" =>
        /\ vfResult.verified <=> vfResult.unverified_claims = <<>>
        /\ IF ExtractClaims(vfAnswer) = <<>> THEN IsOne(vfResult.confidence)
           ELSE vfResult.confidence[1] * Len(ExtractClaims(vfAnswer))
                    = Len(VerifiedClaims) * vfResult.confidence[2]
        /\ Range(VerifiedClaims) \cup Range(vfResult.unverified_claims) = ExtractedTexts
        /\ Range(VerifiedClaims) \cap Range(vfResult.unverified_claims) = {}

\* C30: with the thresholds of the code (a direct overlap of 30% of the
\* claim's terms, a similarity threshold of 0.7) the semantic-similarity check
\* never contributes: every claim and source that fail the direct-overlap
\* check have a Jaccard similarity below the threshold, so no evidence of type
\* semantic_match is produced, for a single claim or in the returned result.
FailOverlap(claim, source) == ~HasTextOverlap(claim, source.text)
C30_NoSemanticMatch ==
    vfPc = "returned" =>
        /\ \A claim \in Range(ExtractClaims(vfAnswer)) :
              /\ \A source \in Range(vfSources) :
                    FailOverlap(claim, source) =>
                        ~AtLeastThreshold(SemanticSimilarity(claim, source.text))
              /\ \A e \in Range(VerifySingleClaim(claim, vfSources).evidence) :
                    e.type \in {"direct_match", "entity_match"}
        /\ \A e \in Range(vfResult.evidence) :
              e.type \in {"direct_match", "entity_match"}

\* a claim that shares a term with a source and still fails the direct-overlap
\* check, so its similarity is computed and is not zero, in a call whose
\* result carries evidence
C30_Witness ==
    /\ vfPc = "returned"
    /\ vfResult.evidence # <<>>
    /\ \E claim \in Range(ExtractClaims(vfAnswer)), source \in Range(vfSources) :
          /\ FailOverlap(claim, source)
          /\ SemanticSimilarity(claim, source.text)[1] > 0

----------------------------------------------------------------------------
(* RerankerService: rerank called on its own *)

MaxCandidates == 3

Candidate(chunk_id, text, score) == [chunk_id |-> chunk_id, text |-> text, score |-> score]
\* The candidates of VectorStoreService.search carry text and score; a list a
\* caller builds itself may hold a dict without "text".
NoTextCandidate == [chunk_id |-> "c4", score |-> 60]
RerankCandidates ==
    { Candidate("c1", "alpha", 50), Candidate("c2", "beta", 20),
      Candidate("c3", "gamma", 70), NoTextCandidate }
TopNs == {1, 2, TOP_N_RERANK}
WellFormed(candidate) == {"text", "score"} \subseteq DOMAIN candidate

\* _compute_tfidf_scores: the cosine similarity of scikit-learn, as a table;
\* when fit_transform or cosine_similarity raises, the except branch of the
\* signal gives 0.0 for every text
TfIdfOutcomes == {"computed", "raises"}
TfIdfScore(text, tfidf) == IF tfidf = "computed" /\ text = "beta" THEN 40 ELSE 0
\* _compute_length_scores: length / 100 for a text of fewer than 100 words;
\* the texts of the model are one word long
LengthScore(text) == 1
\* _compute_position_scores and _compute_entity_scores of a candidate
\* without metadata: start_pos 0, no entities
PositionScore(candidate) == 100
EntityScore(candidate) == 50
\* combined_score, in ten-thousandths
CombinedScore(candidate, tfidf) ==
    40 * candidate.score + 30 * TfIdfScore(candidate.text, tfidf)
      + 10 * LengthScore(candidate.text) + 10 * PositionScore(candidate)
      + 10 * EntityScore(candidate)

\* combined_scores.sort(key=lambda x: x[1], reverse=True): a stable sort, so
\* of two candidates with equal combined scores the one that came first in
\* the input stays first
SortsBefore(candidates, tfidf, a, b) ==
    \/ CombinedScore(candidates[a], tfidf) > CombinedScore(candidates[b], tfidf)
    \/ /\ CombinedScore(candidates[a], tfidf) = CombinedScore(candidates[b], tfidf)
       /\ a < b
SortedPlace(candidates, tfidf, i) ==
    Cardinality({j \in DOMAIN candidates : SortsBefore(candidates, tfidf, j, i)}) + 1
\* candidate.copy() with rerank_score and rerank_rank
Reranked(candidate, score, rank) ==
    [k \in DOMAIN candidate \cup {"rerank_score", "rerank_rank"} |->
        CASE k = "rerank_score" -> score
          [] k = "rerank_rank" -> rank
          [] OTHER -> candidate[k]]
\* rerank reaches its signals: there are more than top_n candidates
ComputesSignals(candidates, top_n) == Len(candidates) > top_n
\* candidate["text"] or candidate["score"] raises KeyError in the try block
RaisesInTry(candidates, top_n) ==
    /\ ComputesSignals(candidates, top_n)
    /\ \E i \in DOMAIN candidates : ~WellFormed(candidates[i])

\* RerankerService.rerank: the passthrough, the list built in the try block
\* (tfidf: what the TF-IDF computation did), and candidates[:top_n] of the
\* except branch
RerankResult(candidates, top_n, tfidf) ==
    IF ~ComputesSignals(candidates, top_n) THEN candidates
    ELSE IF RaisesInTry(candidates, top_n) THEN FirstN(candidates, top_n)
    ELSE [p \in 1..top_n |->
            LET i == CHOOSE j \in DOMAIN candidates :
                         SortedPlace(candidates, tfidf, j) = p
            IN  Reranked(candidates[i], CombinedScore(candidates[i], tfidf), p)]

InitRR ==
    /\ rrPc = "called"
    /\ rrCandidates \in SeqsUpTo(RerankCandidates, MaxCandidates)
    /\ rrTopN \in TopNs
    /\ rrTfidf = "unused"
    /\ rrResult = <<>>

\* rerank(query, candidates, top_n), returning from its try block: the
\* candidates themselves when there are at most top_n, the reranked list of
\* more; a TF-IDF computation that raises is caught in the signal
Rerank(tfidf) ==
    /\ rrPc = "called"
    /\ ~RaisesInTry(rrCandidates, rrTopN)
    /\ rrTfidf' = IF ComputesSignals(rrCandidates, rrTopN) THEN tfidf ELSE "unused"
    /\ rrResult' = RerankResult(rrCandidates, rrTopN, tfidf)
    /\ rrPc' = "returned"
    /\ UNCHANGED <<rrCandidates, rrTopN>>
    /\ UNCHANGED othersRR

\* rerank of a list with a candidate that lacks "text": line 36 raises before
\* any signal is computed, and the except branch returns candidates[:top_n]
RerankFallback ==
    /\ rrPc = "called"
    /\ RaisesInTry(rrCandidates, rrTopN)
    /\ rrResult' = RerankResult(rrCandidates, rrTopN, "unused")
    /\ rrPc' = "returned"
    /\ UNCHANGED <<rrCandidates, rrTopN, rrTfidf>>
    /\ UNCHANGED othersRR

NextRR ==
    \/ \E tfidf \in TfIdfOutcomes : Rerank(tfidf)
    \/ RerankFallback

IdleRR ==
    /\ rrPc = "off"
    /\ rrCandidates = <<>>
    /\ rrTopN = 0
    /\ rrTfidf = "unused"
    /\ rrResult = <<>>

\* C14: rerank of at most top_n candidates returns them in their original
\* order, each carrying rerank_rank equal to its position in the list
\* (counted from 1).
C14_RerankPassthrough ==
    (rrPc = "returned" /\ Len(rrCandidates) <= rrTopN) =>
        /\ Len(rrResult) = Len(rrCandidates)
        /\ \A p \in DOMAIN rrResult :
              /\ \A k \in DOMAIN rrCandidates[p] :
                    k \in DOMAIN rrResult[p] /\ rrResult[p][k] = rrCandidates[p][k]
              /\ "rerank_rank" \in DOMAIN rrResult[p]
              /\ rrResult[p]["rerank_rank"] = p

IsInputCandidate(result) ==
    \E i \in DOMAIN rrCandidates :
        \A k \in DOMAIN rrCandidates[i] :
            k \in DOMAIN result /\ result[k] = rrCandidates[i][k]
\* more than top_n candidates, each with its text and its score
Cut ==
    /\ rrPc = "returned"
    /\ Len(rrCandidates) > rrTopN
    /\ \A i \in DOMAIN rrCandidates : WellFormed(rrCandidates[i])

\* C25: rerank of more than top_n candidates returns exactly top_n of the
\* input candidates, in descending order of the weighted score, with
\* rerank_rank 1..top_n; candidates of equal weighted score are in the order
\* of their retrieval scores, higher first.
C25_RerankOrder ==
    Cut =>
        /\ Len(rrResult) = rrTopN
        /\ \A p \in DOMAIN rrResult :
              /\ IsInputCandidate(rrResult[p])
              /\ "rerank_rank" \in DOMAIN rrResult[p]
              /\ rrResult[p]["rerank_rank"] = p
        /\ \A p \in 1..(Len(rrResult) - 1) :
              /\ rrResult[p].rerank_score >= rrResult[p + 1].rerank_score
              /\ rrResult[p].rerank_score = rrResult[p + 1].rerank_score
                    => rrResult[p].score >= rrResult[p + 1].score

\* the same without the order of ties, with the weighted score that rerank
\* computed (the TF-IDF signal 0.0 throughout when its computation raised)
C25_RerankOrderBesidesTies ==
    Cut =>
        /\ Len(rrResult) = rrTopN
        /\ \A p \in DOMAIN rrResult :
              /\ IsInputCandidate(rrResult[p])
              /\ rrResult[p]["rerank_rank"] = p
              /\ rrResult[p].rerank_score = CombinedScore(rrResult[p], rrTfidf)
        /\ \A p \in 1..(Len(rrResult) - 1) :
              rrResult[p].rerank_score >= rrResult[p + 1].rerank_score
        /\ \A i \in DOMAIN rrCandidates :
              CombinedScore(rrCandidates[i], rrTfidf) <= rrResult[1].rerank_score

----------------------------------------------------------------------------
(* LangChainRAGService: process_query *)

\* Option values as Python sees them: an int, a str or a bool
IntValue(n) == [int |-> n]
StrValue(s) == [str |-> s]
BoolValue(b) == [bool |-> b]

\* int(value): the strings of the model are "5", which is a numeral, and
\* "many" and "yes", which raise ValueError
ToInt(value) ==
    IF "int" \in DOMAIN value THEN [raised |-> FALSE, value |-> value.int]
    ELSE IF "bool" \in DOMAIN value
    THEN [raised |-> FALSE, value |-> IF value.bool THEN 1 ELSE 0]
    ELSE IF value.str = "5" THEN [raised |-> FALSE, value |-> 5]
    ELSE [raised |-> TRUE, value |-> 0]

\* bool(value)
Truthy(value) ==
    IF "int" \in DOMAIN value THEN value.int # 0
    ELSE IF "bool" \in DOMAIN value THEN value.bool
    ELSE value.str # ""

\* the checks of top_k and of max_hops in validate_query_options
RangeErrors(options, key, low, high) ==
    IF key \notin DOMAIN options THEN <<>>
    ELSE LET n == ToInt(options[key])
         IN IF n.raised THEN <<key \o " must be a valid integer">>
            ELSE IF ~(low <= n.value /\ n.value <= high)
            THEN <<key \o " must be between " \o ToString(low) \o " and "
                     \o ToString(high)>>
            ELSE <<>>

ConversationalErrors(options) ==
    IF "use_conversational" \in DOMAIN options
       /\ "bool" \notin DOMAIN options["use_conversational"]
    THEN <<"use_conversational must be a boolean">>
    ELSE <<>>

validate_query_options(options) ==
    LET errors == RangeErrors(options, "top_k", 1, 100)
                      \o ConversationalErrors(options)
                      \o RangeErrors(options, "max_hops", 1, 10)
    IN [valid |-> errors = <<>>, errors |-> errors]

\* ', '.join(errors)
RECURSIVE JoinErrors(_)
JoinErrors(errors) ==
    IF errors = <<>> THEN ""
    ELSE IF Len(errors) = 1 THEN errors[1]
    ELSE errors[1] \o ", " \o JoinErrors(Tail(errors))

\* the places of text where sub begins
Places(sub, text) ==
    {i \in 1..(Len(text) - Len(sub) + 1) : SubSeq(text, i, i + Len(sub) - 1) = sub}

\* validate_question: the regular expressions it searches the question for,
\* ignoring case.  All but the first are plain text.  The first matches
\* "<script", then a ">" and then "</script>", each after the one before; the
\* texts of the model have no line break.
suspicious_patterns ==
    {"<script.*?>.*?</script>", "javascript:", "data:text/html", "vbscript:",
     "onload=", "onerror="}

SearchIgnoreCase(pattern, lowered) ==
    IF pattern = "<script.*?>.*?</script>"
    THEN \E i \in Places("<script", lowered), j \in Places(">", lowered),
            k \in Places("</script>", lowered) : i + 7 <= j /\ j < k
    ELSE In(pattern, lowered)

\* question is the words of the text, which lower() turns one by one
validate_question(question) ==
    LET text == Text(question)
    IN IF text = ""
       THEN [valid |-> FALSE, error |-> "Question must be a non-empty string"]
       ELSE IF Len(Strip(text)) < 3
       THEN [valid |-> FALSE, error |-> "Question must be at least 3 characters long"]
       ELSE IF Len(text) > 10000
       THEN [valid |-> FALSE, error |-> "Question must be less than 10000 characters"]
       ELSE IF \E pattern \in suspicious_patterns :
                  SearchIgnoreCase(pattern, Text(LowerWords(question)))
       THEN [valid |-> FALSE, error |-> "Question contains potentially malicious content"]
       ELSE [valid |-> TRUE, error |-> ""]

\* ResponseFormatter.format_error_response; the timestamp of the metadata is
\* the clock's and is left out of every response
format_error_response(error, error_type, tenant_id) ==
    [answer |-> "I encountered an error: " \o error,
     sources |-> <<>>,
     confidence |-> 0,
     error |-> error,
     error_type |-> error_type,
     metadata |-> [tenant_id |-> tenant_id, response_type |-> "error"]]

\* QueryPlannerAgent.plan_query_execution; llm is what the planner's LLM call
\* does.  Nothing it calls raises: the analysis searches a string, and
\* decompose_query and create_execution_plan catch what they raise.
plan_query_execution(question, llm) ==
    LET complexity == analyze_query_complexity(question)
        decomposed == decompose_query(question, llm)
        sub_queries == IF complexity.requires_multi_hop
                       THEN SubQueriesAsPlanned(decomposed)
                       ELSE <<Put(Put(Simple(Text(question)), "execution_order", 1),
                                  "estimated_difficulty", "easy")>>
        execution_plan == IF complexity.requires_multi_hop
                          THEN ExecutionPlan(decomposed)
                          ELSE sub_queries
    IN [original_question |-> Text(question),
        complexity_analysis |-> complexity,
        sub_queries |-> sub_queries,
        execution_plan |-> execution_plan,
        estimated_execution_time |-> Len(execution_plan) * 2,
        requires_parallel_execution |->
            /\ Len(execution_plan) > 1
            /\ ~\E i \in DOMAIN execution_plan :
                  Get(execution_plan[i], "dependencies", <<>>) # <<>>]

\* ResponseFormatter.format_rag_response of what _process_simple_query built;
\* confidence in hundredths
SimpleResponse(question, tenant_id, response_text) ==
    [answer |-> response_text,
     sources |-> <<>>,
     confidence |-> 80,
     metadata |-> [tenant_id |-> tenant_id, response_type |-> "rag",
                   question |-> Text(question)]]

\* MultiHopReasoningAgent: what agent_executor.ainvoke does is an input.  It
\* raises, or it returns a dict that may have the keys "output" (a str or
\* None) and "intermediate_steps" (a list of dicts, a list of the pairs
\* AgentExecutor makes, or None).
AGENT_MAX_HOPS == 3
AgentRaises == [raises |-> TRUE, result |-> <<>>]
AgentReturns(result) == [raises |-> FALSE, result |-> result]
DictSteps(n) == [dicts |-> n]
PairSteps(n) == [pairs |-> n]
IsNone(value) == "none" \in DOMAIN value
StepCount(steps) == IF "dicts" \in DOMAIN steps THEN steps.dicts ELSE steps.pairs

\* MultiHopReasoningAgent._extract_reasoning_steps; of a reasoning step its
\* number is kept.  A pair has no get and None cannot be enumerated: the
\* except branch returns the empty list.
extract_reasoning_steps(result) ==
    IF "intermediate_steps" \notin DOMAIN result THEN <<>>
    ELSE IF "dicts" \in DOMAIN result.intermediate_steps
    THEN [i \in 1..result.intermediate_steps.dicts |-> [step |-> i]]
    ELSE <<>>

\* MultiHopReasoningAgent._calculate_confidence, in hundredths: len() of None
\* raises, and the except branch returns 0.5
AgentConfidence(result) ==
    LET steps == Get(result, "intermediate_steps", DictSteps(0))
        answer == Get(result, "output", StrValue(""))
    IN IF IsNone(steps) \/ IsNone(answer) THEN 50
       ELSE LET quality_factor == IF Len(answer.str) < 50 THEN 7
                                  ELSE IF Len(answer.str) > 500 THEN 10
                                  ELSE 9
            IN Round2(Min(StepCount(steps), AGENT_MAX_HOPS) * quality_factor,
                      AGENT_MAX_HOPS * 10)

\* MultiHopReasoningAgent.process_query
AgentResult(agent) ==
    IF agent.raises
    THEN [answer |-> "I encountered an error during multi-hop reasoning. Please try again.",
          reasoning_steps |-> <<>>, hop_count |-> 0, confidence |-> 0,
          error |-> "agent"]
    ELSE LET output == Get(agent.result, "output", StrValue(""))
             reasoning_steps == extract_reasoning_steps(agent.result)
         IN [answer |-> IF IsNone(output) THEN None ELSE output.str,
             reasoning_steps |-> reasoning_steps,
             hop_count |-> Len(reasoning_steps),
             confidence |-> AgentConfidence(agent.result)]

\* ResponseFormatter.format_multi_hop_response: the agent's error key is not
\* copied, and the agent's result has no sources
format_multi_hop_response(result, tenant_id) ==
    [answer |-> result.answer,
     reasoning_steps |-> result.reasoning_steps,
     hop_count |-> result.hop_count,
     confidence |-> result.confidence,
     sources |-> <<>>,
     metadata |-> [tenant_id |-> tenant_id, response_type |-> "multi_hop"]]

\* ResponseFormatter.add_processing_metadata as process_query calls it: no
\* operation is recorded with the monitor, whose summary has no total_time
add_processing_metadata(response, query_plan) ==
    [response EXCEPT !.metadata =
        Put(Put(Put(Put(@, "processing_time", 0), "memory_usage", <<>>),
                "query_plan", query_plan),
            "complexity_level", query_plan.complexity_analysis.complexity_level)]

\* vector_store.as_retriever(tenant_id=..., search_kwargs={"k": ...}): a
\* retriever of that tenant's documents
Retriever(tenant_id, k) == [tenant_id |-> tenant_id, search_kwargs |-> [k |-> k]]

\* The calls of the model
RagTenant == "t1"
RagQuestions ==
    PlannerQuestions \cup
        { <<>>, <<"Hi">>, <<" Hi ">>,
          <<Repeat("x", 10000)>>, <<Repeat("x", 10001)>>,
          <<"javascript:", "plans">>, <<"JavaScript:", "plans">>,
          <<"plans", "onerror=x">>, <<"see", "data:text/html,plans">>,
          <<"<script>alert(1)</script>">>, <<"<SCRIPT>", "plans", "</SCRIPT>">>,
          <<"</script>", "plans", "<script>">> }
RagOptions ==
    { <<>>,
      [top_k |-> IntValue(5)],
      [top_k |-> StrValue("5")],
      [top_k |-> IntValue(0)],
      [top_k |-> StrValue("many"), max_hops |-> IntValue(11)],
      [use_conversational |-> StrValue("yes")],
      [use_multi_hop |-> BoolValue(FALSE)],
      [use_multi_hop |-> BoolValue(TRUE), use_self_consistency |-> BoolValue(TRUE)] }
RagPlannerOutcomes ==
    { [raises |-> TRUE, response |-> <<>>],
      Responds(<<>>),
      Responds(Block(1, "number", "1", {}) \o Block(2, "number", "2", {1})) }
RagLlmOutcomes == {"Paris", LlmRaises}
RagAgentOutcomes ==
    { AgentRaises,
      AgentReturns([output |-> StrValue("Paris")]),
      AgentReturns([output |-> StrValue("Paris"), intermediate_steps |-> DictSteps(2)]),
      AgentReturns([output |-> StrValue(Repeat("a", 49)), intermediate_steps |-> PairSteps(2)]),
      AgentReturns([output |-> StrValue(Repeat("a", 50)), intermediate_steps |-> DictSteps(2)]),
      AgentReturns([output |-> StrValue(Repeat("a", 60)), intermediate_steps |-> DictSteps(3)]),
      AgentReturns([output |-> StrValue(Repeat("a", 500)), intermediate_steps |-> DictSteps(4)]),
      AgentReturns([output |-> StrValue(Repeat("a", 501)), intermediate_steps |-> DictSteps(1)]),
      AgentReturns([output |-> None, intermediate_steps |-> DictSteps(2)]),
      AgentReturns([intermediate_steps |-> None]) }

InitRS ==
    /\ rsPc = "received"
    /\ rsQuestion \in RagQuestions
    /\ rsOptions \in RagOptions
    /\ rsPlan = <<>>
    /\ rsResult = <<>>

RagReturn(result) ==
    /\ rsResult' = result
    /\ rsPc' = "returned"

\* if requires_multi_hop and options.get("use_multi_hop", True)
UseMultiHop(query_plan) ==
    /\ Get(query_plan.complexity_analysis, "requires_multi_hop", FALSE)
    /\ Truthy(Get(rsOptions, "use_multi_hop", BoolValue(TRUE)))

\* process_query up to its first await: the two validations, each of which
\* may return the error response, and plan_query_execution, which awaits the
\* planner's LLM for a question that requires multi-hop; for another question
\* the plan needs no LLM and the call goes on to the await of self.llm.ainvoke
\* in _process_simple_query
RagReceiveQuery ==
    /\ rsPc = "received"
    /\ LET validation_result == validate_question(rsQuestion)
           options_validation == validate_query_options(rsOptions)
       IN IF ~validation_result.valid
          THEN /\ RagReturn(format_error_response(validation_result.error,
                                                  "validation_error", RagTenant))
               /\ UNCHANGED rsPlan
          ELSE IF ~options_validation.valid
          THEN /\ RagReturn(format_error_response(
                                "Invalid options: " \o JoinErrors(options_validation.errors),
                                "validation_error", RagTenant))
               /\ UNCHANGED rsPlan
          ELSE IF analyze_query_complexity(rsQuestion).requires_multi_hop
          THEN /\ rsPc' = "planning"
               /\ UNCHANGED <<rsPlan, rsResult>>
          ELSE /\ rsPlan' = plan_query_execution(rsQuestion, NoLLM)
               /\ rsPc' = "answering"
               /\ UNCHANGED rsResult
    /\ UNCHANGED <<rsQuestion, rsOptions, mhRetriever>>
    /\ UNCHANGED othersRS

\* the planner's LLM call is over (llm is what it did): the plan is made, and
\* the call goes on to its next await.  In the multi-hop branch that is the
\* agent's: _process_multi_hop_query asks the vector store for a retriever,
\* which may fail, and assigns it to the agent's attribute before it awaits
\* the agent.  Otherwise it is the await of self.llm.ainvoke.
RagPlannerReturns(llm, retriever_raises) ==
    /\ rsPc = "planning"
    /\ LET query_plan == plan_query_execution(rsQuestion, llm)
       IN /\ rsPlan' = query_plan
          /\ IF ~UseMultiHop(query_plan)
             THEN /\ rsPc' = "answering"
                  /\ UNCHANGED <<rsResult, mhRetriever>>
             ELSE IF retriever_raises
             THEN /\ RagReturn(format_error_response("vector store", "processing_error",
                                                     RagTenant))
                  /\ UNCHANGED mhRetriever
             ELSE /\ mhRetriever' = Retriever(RagTenant, Get(rsOptions, "top_k", IntValue(5)))
                  /\ rsPc' = "reasoning"
                  /\ UNCHANGED rsResult
    /\ UNCHANGED <<rsQuestion, rsOptions>>
    /\ UNCHANGED othersRS

\* self.llm.ainvoke of _process_simple_query is over (both of the branches
\* that call it), and the rest of process_query; response is what it did
RagLlmReturns(response) ==
    /\ rsPc = "answering"
    /\ RagReturn(IF response = LlmRaises
                 THEN format_error_response("llm", "processing_error", RagTenant)
                 ELSE add_processing_metadata(
                          SimpleResponse(rsQuestion, RagTenant, response), rsPlan))
    /\ UNCHANGED <<rsQuestion, rsOptions, rsPlan, mhRetriever>>
    /\ UNCHANGED othersRS

\* agent_executor.ainvoke is over (agent is what it did): the rest of
\* MultiHopReasoningAgent.process_query, of _process_multi_hop_query and of
\* process_query
RagAgentReturns(agent) ==
    /\ rsPc = "reasoning"
    /\ RagReturn(add_processing_metadata(
                     format_multi_hop_response(AgentResult(agent), RagTenant), rsPlan))
    /\ UNCHANGED <<rsQuestion, rsOptions, rsPlan, mhRetriever>>
    /\ UNCHANGED othersRS

NextRS ==
    \/ RagReceiveQuery
    \/ \E llm \in RagPlannerOutcomes, retriever_raises \in BOOLEAN :
           RagPlannerReturns(llm, retriever_raises)
    \/ \E response \in RagLlmOutcomes : RagLlmReturns(response)
    \/ \E agent \in RagAgentOutcomes : RagAgentReturns(agent)

IdleRS ==
    /\ rsPc = "off"
    /\ rsQuestion = <<>>
    /\ rsOptions = <<>>
    /\ rsPlan = <<>>
    /\ rsResult = <<>>

(* Claims about LangChainRAGService.process_query *)

RagReturned == rsPc = "returned"
RagErrorResponse == RagReturned /\ "error" \in DOMAIN rsResult

\* C16, LangChainRAGService.process_query: what the call returns is a result
\* or one structured error response carrying an error message, confidence 0.0,
\* no sources and hop count 0.
C16_ErrorResponseShape ==
    RagErrorResponse =>
        /\ rsResult.error # ""
        /\ rsResult.confidence = 0
        /\ rsResult.sources = <<>>
        /\ "hop_count" \in DOMAIN rsResult
        /\ rsResult.hop_count = 0

----------------------------------------------------------------------------
(* IngestionService: concurrent process_document calls on one vector store *)

\* The calls run as coroutines of one event loop and share the service's
\* VectorStoreService.  A coroutine gives up the loop only where an await
\* suspends: generate_embedding does (run_in_executor); add_chunk does not,
\* its one await is of _save_index, which awaits nothing, so index.add, the
\* metadata entry and the writing of both files happen in one step.
MaxChunks == 2
Calls == {1, 2}
DocOf(call) == IF call = 1 THEN "d1" ELSE "d2"
TenantOf(call) == IF call = 1 THEN "t1" ELSE "t2"

\* chunk_id = str(uuid.uuid4()): no two chunks share one
ChunkIdOf(call, i) == DocOf(call) \o "-" \o ToString(i)

InitING ==
    /\ ingPc = [call \in Calls |-> "called"]
    /\ ingChunks = [call \in Calls |-> 0]
    /\ ingNext = [call \in Calls |-> 0]
    /\ ingEmbedding = [call \in Calls |-> 0]
    /\ ingGiven = <<>>

\* process_document up to the loop: _extract_text and chunk_text
ExtractAndChunk(call, chunks) ==
    /\ ingPc[call] = "called"
    /\ ingPc' = [ingPc EXCEPT ![call] = "embedding"]
    /\ ingChunks' = [ingChunks EXCEPT ![call] = chunks]
    /\ ingNext' = [ingNext EXCEPT ![call] = 1]
    /\ UNCHANGED <<ingEmbedding, ingGiven>>
    /\ UNCHANGED <<vsVars, othersING>>

\* the document has no text: ValueError, the except branch, the call raises
ExtractNoText(call) ==
    /\ ingPc[call] = "called"
    /\ ingPc' = [ingPc EXCEPT ![call] = "failed"]
    /\ UNCHANGED <<ingChunks, ingNext, ingEmbedding, ingGiven>>
    /\ UNCHANGED <<vsVars, othersING>>

\* await self.embedding_service.generate_embedding(chunk["text"])
GenerateEmbedding(call, embedding) ==
    /\ ingPc[call] = "embedding"
    /\ ingNext[call] <= ingChunks[call]
    /\ ingEmbedding' = [ingEmbedding EXCEPT ![call] = embedding]
    /\ ingPc' = [ingPc EXCEPT ![call] = "storing"]
    /\ UNCHANGED <<ingChunks, ingNext, ingGiven>>
    /\ UNCHANGED <<vsVars, othersING>>

\* generate_embedding raises: the except branch, the call raises
GenerateEmbeddingFails(call) ==
    /\ ingPc[call] = "embedding"
    /\ ingNext[call] <= ingChunks[call]
    /\ ingPc' = [ingPc EXCEPT ![call] = "failed"]
    /\ UNCHANGED <<ingChunks, ingNext, ingEmbedding, ingGiven>>
    /\ UNCHANGED <<vsVars, othersING>>

\* await self.vector_store.add_chunk(...): the whole of add_chunk, its save
\* included; when the save raises, so do add_chunk and the call
StoreChunk(call, outcome) ==
    LET chunk_id == ChunkIdOf(call, ingNext[call])
    IN /\ ingPc[call] = "storing"
       /\ \E text \in TextsOf(TenantOf(call)) :
             AddChunkToStore(chunk_id, DocOf(call), TenantOf(call), text,
                             ingEmbedding[call], outcome)
       /\ ingGiven' = Put(ingGiven, chunk_id, ingEmbedding[call])
       /\ IF outcome = "ok"
          THEN /\ ingNext' = [ingNext EXCEPT ![call] = @ + 1]
               /\ ingPc' = [ingPc EXCEPT ![call] = "embedding"]
          ELSE /\ ingNext' = ingNext
               /\ ingPc' = [ingPc EXCEPT ![call] = "failed"]
       /\ UNCHANGED <<ingChunks, ingEmbedding>>
       /\ UNCHANGED othersING

\* the loop is over: _update_document_status and the return
CompleteDocument(call) ==
    /\ ingPc[call] = "embedding"
    /\ ingNext[call] > ingChunks[call]
    /\ ingPc' = [ingPc EXCEPT ![call] = "completed"]
    /\ UNCHANGED <<ingChunks, ingNext, ingEmbedding, ingGiven>>
    /\ UNCHANGED <<vsVars, othersING>>

NextING ==
    \/ \E call \in Calls, chunks \in 1..MaxChunks : ExtractAndChunk(call, chunks)
    \/ \E call \in Calls : ExtractNoText(call)
    \/ \E call \in Calls, embedding \in Embeddings : GenerateEmbedding(call, embedding)
    \/ \E call \in Calls : GenerateEmbeddingFails(call)
    \/ \E call \in Calls, outcome \in SaveOutcomes : StoreChunk(call, outcome)
    \/ \E call \in Calls : CompleteDocument(call)

IdleING ==
    /\ ingPc = [call \in Calls |-> "off"]
    /\ ingChunks = [call \in Calls |-> 0]
    /\ ingNext = [call \in Calls |-> 0]
    /\ ingEmbedding = [call \in Calls |-> 0]
    /\ ingGiven = <<>>

(* Claims about concurrent writes *)

\* the vector a chunk's index_id points to, in a list of vectors, is the one
\* handed to add_chunk with the chunk
OwnVector(rec, vectors) ==
    /\ rec.index_id + 1 \in DOMAIN vectors
    /\ vectors[rec.index_id + 1] = ingGiven[rec.chunk_id]

\* there is a snapshot on disk: both files were written whole
SnapshotOnDisk == diskIndexFile.readable /\ diskMetaFile.readable

\* C19: under every interleaving of the concurrent calls, each stored chunk
\* has an index_id that no other stored chunk has and that identifies its own
\* vector, and every snapshot on disk holds, for each chunk of its metadata,
\* that chunk's vector.
C19_WritesAreExclusive ==
    /\ \A p, q \in DOMAIN metadata :
          p # q => metadata[p].index_id # metadata[q].index_id
    /\ \A p \in DOMAIN metadata : OwnVector(metadata[p], index)
    /\ SnapshotOnDisk =>
          \A p \in DOMAIN diskMetaFile.data :
              OwnVector(diskMetaFile.data[p], diskIndexFile.data)

\* the two calls have stored chunks in turn: one of the first, one of the
\* second, then another of the first, all of them in the snapshot
C19_Witness ==
    /\ SnapshotOnDisk
    /\ Len(diskMetaFile.data) >= 3
    /\ diskMetaFile.data[1].doc_id = "d1"
    /\ diskMetaFile.data[2].doc_id = "d2"
    /\ diskMetaFile.data[3].doc_id = "d1"
    /\ \E call \in Calls : ingPc[call] \in {"embedding", "storing"}

----------------------------------------------------------------------------
(* LangChainRAGService: multi-hop queries of two tenants processed           *)
(* concurrently by one service, which has one MultiHopReasoningAgent         *)

Requests == {1, 2}
TenantOfRequest(r) == IF r = 1 THEN "t1" ELSE "t2"

\* _initialize_agents gives the agent a retriever of tenant "default"
DefaultRetriever == Retriever("default", IntValue(5))

InitMH ==
    /\ mhPc = [r \in Requests |-> "called"]
    /\ mhRetriever = DefaultRetriever
    /\ mhSearches = [r \in Requests |-> <<>>]

\* process_query up to its await of plan_query_execution, which awaits the LLM
ReceiveQuery(r) ==
    /\ mhPc[r] = "called"
    /\ mhPc' = [mhPc EXCEPT ![r] = "planning"]
    /\ UNCHANGED <<mhRetriever, mhSearches>>
    /\ UNCHANGED othersMH

\* the plan is back and asks for multi-hop: _process_multi_hop_query assigns
\* the agent's retriever, and MultiHopReasoningAgent.process_query runs up to
\* the first LLM call of agent_executor.ainvoke
AssignRetriever(r) ==
    /\ mhPc[r] = "planning"
    /\ mhRetriever' = Retriever(TenantOfRequest(r), IntValue(5))
    /\ mhPc' = [mhPc EXCEPT ![r] = "reasoning"]
    /\ UNCHANGED mhSearches
    /\ UNCHANGED othersMH

\* the agent's LLM call is back and names the search_documents tool, which
\* runs self.retriever.invoke(query): at most max_iterations times
SearchDocuments(r) ==
    /\ mhPc[r] = "reasoning"
    /\ Len(mhSearches[r]) < AGENT_MAX_HOPS
    /\ mhSearches' = [mhSearches EXCEPT ![r] = Append(@, mhRetriever)]
    /\ UNCHANGED <<mhPc, mhRetriever>>
    /\ UNCHANGED othersMH

\* the agent's LLM call is back with the final answer (or the iterations are
\* used up), and process_query returns
AgentFinishes(r) ==
    /\ mhPc[r] = "reasoning"
    /\ mhPc' = [mhPc EXCEPT ![r] = "returned"]
    /\ UNCHANGED <<mhRetriever, mhSearches>>
    /\ UNCHANGED othersMH

NextMH ==
    \/ \E r \in Requests : ReceiveQuery(r)
    \/ \E r \in Requests : AssignRetriever(r)
    \/ \E r \in Requests : SearchDocuments(r)
    \/ \E r \in Requests : AgentFinishes(r)

IdleMH ==
    /\ mhPc = [r \in Requests |-> "off"]
    /\ mhRetriever = DefaultRetriever
    /\ mhSearches = [r \in Requests |-> <<>>]

----------------------------------------------------------------------------
(* Claims about concurrent multi-hop queries *)

\* C24: whatever the interleaving of the two queries, every document search
\* made for a tenant's question uses that tenant's retriever.
C24_SearchesUseOwnRetriever ==
    \A r \in Requests : \A p \in DOMAIN mhSearches[r] :
        mhSearches[r][p].tenant_id = TenantOfRequest(r)

\* a query that runs alone from its assignment to its return searches its own
\* tenant's documents: the searches made while no other query is past its
\* planning
C24_AloneUsesOwnRetriever ==
    \A r \in Requests :
        (\A o \in Requests \ {r} : mhPc[o] \in {"called", "planning"}) =>
            \A p \in DOMAIN mhSearches[r] :
                mhSearches[r][p].tenant_id = TenantOfRequest(r)

----------------------------------------------------------------------------
(* Specifications: each one runs one component and leaves the others idle *)

InitSpecVS == InitVS /\ IdlePA /\ IdleSC /\ IdleOR /\ IdleVF /\ IdleRR /\ IdleRS /\ IdleING /\ IdleMH
SpecVS == InitSpecVS /\ [][NextVS]_vars

InitSpecPA == InitPA /\ InitVS /\ IdleSC /\ IdleOR /\ IdleVF /\ IdleRR /\ IdleRS /\ IdleING /\ IdleMH
SpecPA == InitSpecPA /\ [][NextPA]_vars

InitSpecSC == InitSC /\ InitVS /\ IdlePA /\ IdleOR /\ IdleVF /\ IdleRR /\ IdleRS /\ IdleING /\ IdleMH
SpecSC == InitSpecSC /\ [][NextSC]_vars

InitSpecOR == InitOR /\ InitVS /\ IdlePA /\ IdleSC /\ IdleVF /\ IdleRR /\ IdleRS /\ IdleING /\ IdleMH
SpecOR == InitSpecOR /\ [][NextOR]_vars

\* The event loop resumes a coroutine whenever what it awaits (the retrieval,
\* the LLM) has returned or raised: a step of the orchestrator that stays
\* possible is taken.
SpecORLive == InitSpecOR /\ [][NextOR]_vars /\ WF_vars(NextOR)

InitSpecVF == InitVF /\ InitVS /\ IdlePA /\ IdleSC /\ IdleOR /\ IdleRR /\ IdleRS /\ IdleING /\ IdleMH
SpecVF == InitSpecVF /\ [][NextVF]_vars

InitSpecRR == InitRR /\ InitVS /\ IdlePA /\ IdleSC /\ IdleOR /\ IdleVF /\ IdleRS /\ IdleING /\ IdleMH
SpecRR == InitSpecRR /\ [][NextRR]_vars

InitSpecRS == InitRS /\ InitVS /\ IdlePA /\ IdleSC /\ IdleOR /\ IdleVF /\ IdleRR /\ IdleING /\ IdleMH
SpecRS == InitSpecRS /\ [][NextRS]_vars

InitSpecING == InitING /\ InitVS /\ IdlePA /\ IdleSC /\ IdleOR /\ IdleVF /\ IdleRR /\ IdleRS /\ IdleMH
SpecING == InitSpecING /\ [][NextING]_vars

InitSpecMH == InitMH /\ InitVS /\ IdlePA /\ IdleSC /\ IdleOR /\ IdleVF /\ IdleRR /\ IdleRS /\ IdleING
SpecMH == InitSpecMH /\ [][NextMH]_vars

====
